---- MODULE Spec2Model ----
(***************************************************************************)
(* Checksum manifest subsystem of Benchmark-PQC:                           *)
(*   scripts/generate_checksums.py  (generator CLI and its functions)      *)
(*   verify_checksums.py            (verifier kept in the repository)      *)
(*   the verifier text that generate_verification_script writes out        *)
(*                                                                         *)
(* The state is the file tree below the working directory, the content of  *)
(* CHECKSUMS.json and of ./verify_checksums.py, and the position of the    *)
(* generator run and of each verifier run.                                 *)
(*                                                                         *)
(* Data validators of Benchmark-PQC:                                       *)
(*   scripts/validate_data.py  (JSONValidator, CSVValidator)               *)
(*                                                                         *)
(* Their state is the file handed to validate and what the call returned;  *)
(* they are run under the specification SpecVal.                           *)
(*                                                                         *)
(* SpecGen runs the generator CLI repeatedly, also for the working         *)
(* directory; SpecBatch runs validate_directory and the validator CLI over *)
(* a directory of data files.                                              *)
(***************************************************************************)
EXTENDS Integers, Sequences, FiniteSets, TLC

(***************************************************************************)
(* Bounds of the model.                                                    *)
(***************************************************************************)
\* number of distinct file contents
NContents == 2
\* number of edits the environment makes to the tree
MaxEdits == 1

(***************************************************************************)
(* File names and paths.  A name is <<stem, ext>>: the name's text is      *)
(* stem followed by ext, ext being the part from the last dot on (or "").  *)
(* A path is the sequence of its components (pathlib's .parts).            *)
(***************************************************************************)
Nm(stem, ext) == <<stem, ext>>

NameText(n) == n[1] \o n[2]

N_results == Nm("results", "")
N_a       == Nm("a", ".json")
N_d       == Nm("d", ".png")
N_sub     == Nm("sub", "")
\* a data file whose name contains the name of an excluded directory
N_b       == Nm("htmlcov", ".csv")
N_htmlcov == Nm("htmlcov", "")
N_c       == Nm("c", ".svg")
N_notes   == Nm("notes", ".txt")

\* Path("results"), the verifier's data_dir and the generator's default
DataRoot == <<N_results>>

\* a path that is nowhere on disk
NoSuchDir == <<Nm("nowhere", "")>>

P_a       == <<N_results, N_a>>
P_d       == <<N_results, N_a, N_d>>
P_sub     == <<N_results, N_sub>>
P_sub_a   == <<N_results, N_sub, N_a>>
P_b       == <<N_results, N_b>>
P_htmlcov == <<N_results, N_htmlcov>>
P_c       == <<N_results, N_htmlcov, N_c>>
P_notes   == <<N_results, N_notes>>

\* Path("."), the working directory of the CLIs
Cwd == <<>>

\* Path("CHECKSUMS.json"), where main() of the generator saves the manifest
P_manifest == <<Nm("CHECKSUMS", ".json")>>

\* every path the model's tree can hold
Universe == {DataRoot, P_a, P_d, P_sub, P_sub_a, P_b, P_htmlcov, P_c, P_notes}

Contents == 1 .. NContents

\* a node of the tree; mtime is 0 for a file as it was first written and 1
\* once it has been written or touched again
Absent == [kind |-> "absent", data |-> 0, mtime |-> 0]

DirNode == [kind |-> "dir", data |-> 0, mtime |-> 0]

FileNode(c) == [kind |-> "file", data |-> c, mtime |-> 0]

\* st_size of a file: the length of its bytes, a function of the content
Size(c) == <<"len", c>>

Parent(p) == SubSeq(p, 1, Len(p) - 1)

IsPrefix(r, p) == Len(r) < Len(p) /\ SubSeq(p, 1, Len(r)) = r

\* a tree is well formed when everything that exists has a directory above it
WellFormed(f) ==
    \A p \in Universe :
        (f[p].kind # "absent" /\ Len(p) > 1) => f[Parent(p)].kind = "dir"

\* Path.exists(): a path outside the tree, or below a non-directory, is absent
Exists(f, p) == p \in DOMAIN f /\ f[p].kind # "absent"

\* Path.is_file()
IsFile(f, p) == p \in DOMAIN f /\ f[p].kind = "file"

\* Path.is_dir()
IsDir(f, p) == p \in DOMAIN f /\ f[p].kind = "dir"

(***************************************************************************)
(* Hashing, path text, patterns, exclusion.                                *)
(***************************************************************************)
\* calculate_sha256: the digest of a file's bytes; distinct contents are
\* taken to have distinct digests
Sha256(c) == <<"sha256", c>>

\* calculate_sha256 opens the path for reading: a directory cannot be opened
CanHash(f, p) == IsFile(f, p)

Sep == Nm("/", "")

Dot == Nm(".", "")

RECURSIVE PathStr(_)
\* str(path): the components joined by "/" ("." for the empty path)
PathStr(parts) ==
    IF Len(parts) = 0 THEN <<Dot>>
    ELSE IF Len(parts) = 1 THEN <<parts[1]>>
    ELSE <<parts[1], Sep>> \o PathStr(Tail(parts))

RECURSIVE ParsePath(_)
\* Path(text).parts: the text split at "/", "." components dropped
ParsePath(s) ==
    IF s = <<>> THEN <<>>
    ELSE IF Head(s) = Sep \/ Head(s) = Dot THEN ParsePath(Tail(s))
    ELSE <<Head(s)>> \o ParsePath(Tail(s))

\* data_dir / rel_path
JoinPath(dir, text) == dir \o ParsePath(text)

\* relative_to forgotten: the key is the whole path, root included
RelativeTo_whole(p, dir) == p

\* file_path.relative_to(data_dir)
RelativeTo(p, dir) == SubSeq(p, Len(dir) + 1, Len(p))

\* one pattern listed twice
Patterns_jsonTwice ==
    <<Nm("*", ".json"), Nm("*", ".csv"), Nm("*", ".png"), Nm("*", ".svg"), Nm("*", ".json")>>

\* one pattern forgotten
Patterns_noPng == <<Nm("*", ".json"), Nm("*", ".csv"), Nm("*", ".svg")>>

\* patterns = ["*.json", "*.csv", "*.png", "*.svg"]
Patterns == <<Nm("*", ".json"), Nm("*", ".csv"), Nm("*", ".png"), Nm("*", ".svg")>>

\* fnmatch of a name against "*<ext>"
Matches(n, pat) == pat[1] = "*" /\ n[2] = pat[2]

\* data_dir.rglob(pattern): everything below data_dir, at any depth, whose
\* name matches; nothing when data_dir is not a directory
RGlob(f, dir, pat) ==
    IF IsDir(f, dir)
    THEN {p \in DOMAIN f : IsPrefix(dir, p) /\ Exists(f, p) /\ Matches(p[Len(p)], pat)}
    ELSE {}

\* exclude_dirs
ExcludeDirs == {"htmlcov", "quality", "__pycache__", ".pytest_cache"}

\* the excluded name is looked for inside the components, not compared with
\* whole components: the part of a component before its suffix is enough
Excluded_stem(p) == \E e \in ExcludeDirs : \E i \in 1 .. Len(p) : p[i][1] = e

\* any(excluded in file_path.parts for excluded in exclude_dirs)
Excluded(p) == \E e \in ExcludeDirs : \E i \in 1 .. Len(p) : NameText(p[i]) = e

(***************************************************************************)
(* JSON values of a manifest: a string, or an object with a sha256 field.  *)
(* A mapping (dict) is the sequence of its items in insertion order.       *)
(***************************************************************************)
JStr(h) == [t |-> "str", v |-> h]

JObj(x) == [t |-> "obj", sha256 |-> x]

\* isinstance(info, dict)
IsDict(x) == x.t = "obj"

\* the comparison looks at the kind of value only, not at the digest
PyEq_kindOnly(x, y) == x.t = y.t

\* Python's == between a digest string and a JSON value
PyEq(x, y) == x.t = y.t /\ (IF x.t = "str" THEN x.v = y.v ELSE x = y)

Keys(items) == {items[i].path : i \in 1 .. Len(items)}

\* d[key] = value: replaces in place, or appends a new key
DictSet(items, key, val) ==
    IF key \in Keys(items)
    THEN [i \in 1 .. Len(items) |->
            IF items[i].path = key THEN [path |-> key, info |-> val] ELSE items[i]]
    ELSE Append(items, [path |-> key, info |-> val])

\* d[key], for a key the mapping holds
DictGet(items, key) == (CHOOSE i \in 1 .. Len(items) : items[i].path = key).info

(***************************************************************************)
(* State.                                                                  *)
(***************************************************************************)
VARIABLES
    fs,            \* the tree: path -> node
    genFs,         \* the tree as it was when the generator last ran
    edits,         \* number of edits made to the tree so far
    manifestFile,  \* content of ./CHECKSUMS.json (a JSON object), or NoManifest
    script,        \* which text ./verify_checksums.py holds
    g,             \* the generator run (scripts/generate_checksums.py main)
    v,             \* the verifier runs, one per verifier text
    vfile,         \* the data file handed to a validator (scripts/validate_data.py)
    vodd,          \* number of changes made to that file so far
    vres,          \* what validate(file_path) did: nothing yet, a result, or a raise
    bdir,          \* the directory the validator CLI is pointed at: path -> entry
    brun           \* the run of the validator CLI (scripts/validate_data.py main)

\* the state of the checksum subsystem, and the state of the validators
sumVars == <<fs, genFs, edits, manifestFile, script, g, v>>

valVars == <<vfile, vodd, vres, bdir, brun>>

batVars == <<bdir, brun>>

vars == <<fs, genFs, edits, manifestFile, script, g, v, vfile, vodd, vres, bdir, brun>>

\* no file was handed to a validator
NoFile == [kind |-> "none"]

\* validate has not been called
NotCalled == [t |-> "not_called"]

\* no directory was handed to the validator CLI, and the CLI was not started
NoDir == <<>>

NotStarted == [pc |-> "idle"]

NoManifest == [missing |-> TRUE]

\* the two verifier texts: the repository's verify_checksums.py and the one
\* generate_verification_script writes
Impl == {"repo", "emitted"}

\* data_dir arguments given to the generator CLI
Roots == {DataRoot, P_a, P_sub, P_htmlcov, NoSuchDir}

NoExit == 0 - 1

GIdle == [pc |-> "idle", dataDir |-> <<>>, pat |-> 0, pending |-> {},
          checksums |-> <<>>, file_count |-> 0, exit |-> NoExit, run |-> 0]

VIdle == [pc |-> "idle", todo |-> <<>>, total |-> 0, verified |-> 0,
          failed |-> <<>>, hashed |-> {}, outcome |-> "none", exit |-> NoExit]

\* paths that hold files, and paths that hold directories, in the edits
FilePaths == {P_a, P_d, P_sub_a, P_b, P_c, P_notes}

DirPaths == {DataRoot, P_a, P_sub, P_htmlcov}

\* the trees a run can start from: every file holds content 1; an existing
\* results/ holds notes.txt and htmlcov/c.svg
InitTrees ==
    {f \in [Universe -> {Absent, DirNode, FileNode(1)}] :
        /\ WellFormed(f)
        /\ f[DataRoot].kind # "file"
        /\ \A p \in {P_sub, P_htmlcov} : f[p].kind # "file"
        /\ \A p \in {P_d, P_sub_a, P_b, P_c, P_notes} : f[p].kind # "dir"
        /\ f[DataRoot].kind = "dir" =>
              f[P_notes].kind = "file" /\ f[P_htmlcov].kind = "dir" /\ f[P_c].kind = "file"}

Init ==
    /\ fs \in InitTrees
    /\ genFs = fs
    /\ edits = 0
    /\ manifestFile = NoManifest
    /\ script = "repo"
    /\ g = GIdle
    /\ v = [i \in Impl |-> VIdle]
    /\ vfile = NoFile
    /\ vodd = 0
    /\ vres = NotCalled
    /\ bdir = NoDir
    /\ brun = NotStarted

NoVerifierStarted == \A i \in Impl : v[i].pc = "idle"

(***************************************************************************)
(* The environment edits the tree between runs.                            *)
(***************************************************************************)
Quiet == g.pc \in {"done", "failed"} /\ NoVerifierStarted /\ edits < MaxEdits

\* write a file: create it, or replace its content
WriteFile(p, c) ==
    /\ Quiet
    /\ p \in FilePaths
    /\ IsDir(fs, Parent(p))
    /\ fs[p].kind \in {"absent", "file"}
    /\ fs[p].kind = "file" => fs[p].data # c
    /\ fs' = [fs EXCEPT ![p] = [FileNode(c) EXCEPT !.mtime = 1]]
    /\ edits' = edits + 1
    /\ UNCHANGED <<genFs, manifestFile, script, g, v, valVars>>

\* touch a file: a new modification time, the same bytes
Touch(p) ==
    /\ Quiet
    /\ IsFile(fs, p)
    /\ fs[p].mtime = 0
    /\ fs' = [fs EXCEPT ![p].mtime = 1]
    /\ edits' = edits + 1
    /\ UNCHANGED <<genFs, manifestFile, script, g, v, valVars>>

\* remove a file, or an empty directory
Remove(p) ==
    /\ Quiet
    /\ Exists(fs, p)
    /\ \A q \in Universe : IsPrefix(p, q) => ~Exists(fs, q)
    /\ fs' = [fs EXCEPT ![p] = Absent]
    /\ edits' = edits + 1
    /\ UNCHANGED <<genFs, manifestFile, script, g, v, valVars>>

\* make a directory
Mkdir(p) ==
    /\ Quiet
    /\ p \in DirPaths
    /\ ~Exists(fs, p)
    /\ Len(p) > 1 => IsDir(fs, Parent(p))
    /\ fs' = [fs EXCEPT ![p] = DirNode]
    /\ edits' = edits + 1
    /\ UNCHANGED <<genFs, manifestFile, script, g, v, valVars>>

(***************************************************************************)
(* scripts/generate_checksums.py                                           *)
(***************************************************************************)
\* the entry generate_checksums records for a file
GenEntry(f, p) ==
    [t |-> "obj", sha256 |-> JStr(Sha256(f[p].data)),
     size |-> Size(f[p].data), modified |-> f[p].mtime]

\* what the generator finds on disk: the tree, the working directory above
\* it, and CHECKSUMS.json in the working directory
Disk(f, m) ==
    [p \in DOMAIN f \cup {Cwd, P_manifest} |->
        IF p = Cwd THEN DirNode
        ELSE IF p = P_manifest THEN (IF m = NoManifest THEN Absent ELSE FileNode(m))
        ELSE f[p]]

\* main(), up to the first rglob of generate_checksums
GenMain(d) ==
    /\ g.pc = "idle"
    /\ NoVerifierStarted
    /\ IF ~Exists(Disk(fs, manifestFile), d)
       THEN g' = [GIdle EXCEPT !.pc = "failed", !.dataDir = d, !.exit = 1,
                               !.run = g.run + 1]
       ELSE g' = [GIdle EXCEPT !.pc = "scan", !.dataDir = d, !.pat = 1,
                               !.pending = RGlob(Disk(fs, manifestFile), d, Patterns[1]),
                               !.run = g.run + 1]
    /\ genFs' = fs
    /\ UNCHANGED <<fs, edits, manifestFile, script, v, valVars>>

\* one pass of the inner loop of generate_checksums, for file_path = p
GenVisit(p) ==
    /\ g.pc = "scan"
    /\ p \in g.pending
    /\ IF Excluded(p) \/ ~IsFile(Disk(fs, manifestFile), p)
       THEN g' = [g EXCEPT !.pending = @ \ {p}]
       ELSE g' = [g EXCEPT !.pending = @ \ {p},
                           !.checksums = DictSet(@, PathStr(RelativeTo(p, g.dataDir)),
                                                 GenEntry(Disk(fs, manifestFile), p)),
                           !.file_count = @ + 1]
    /\ UNCHANGED <<fs, genFs, edits, manifestFile, script, v, valVars>>

\* the outer loop of generate_checksums moves to the next pattern
GenNextPattern ==
    /\ g.pc = "scan"
    /\ g.pending = {}
    /\ g.pat < Len(Patterns)
    /\ g' = [g EXCEPT !.pat = @ + 1,
                       !.pending = RGlob(Disk(fs, manifestFile), g.dataDir, Patterns[g.pat + 1])]
    /\ UNCHANGED <<fs, genFs, edits, manifestFile, script, v, valVars>>

\* the dict generate_checksums returns
ReturnedManifest(gen) ==
    [generated |-> "now", total_files |-> gen.file_count, checksums |-> gen.checksums]

\* generate_checksums returns; main saves the manifest and writes the
\* verifier next to it
GenFinish ==
    /\ g.pc = "scan"
    /\ g.pending = {}
    /\ g.pat = Len(Patterns)
    /\ manifestFile' = ReturnedManifest(g)
    /\ script' = "emitted"
    /\ g' = [g EXCEPT !.pc = "done", !.exit = 0]
    /\ UNCHANGED <<fs, genFs, edits, v, valVars>>

(***************************************************************************)
(* The manifest on disk is rewritten by hand into another layout: the      *)
(* entries under `checksums`, under `files`, under both or under neither,  *)
(* each value a bare digest string or an object with a sha256 field.       *)
(***************************************************************************)
Layouts == {"checksums", "files", "both", "neither"}

Shapes == {"str", "obj"}

Reshape(items, shape) ==
    [i \in 1 .. Len(items) |->
        [path |-> items[i].path,
         info |-> IF shape = "str" THEN items[i].info.sha256 ELSE JObj(items[i].info.sha256)]]

Rewritten(m, layout, shape) ==
    CASE layout = "checksums" -> [checksums |-> Reshape(m.checksums, shape)]
      [] layout = "files"     -> [files |-> Reshape(m.checksums, shape)]
      [] layout = "both"      -> [checksums |-> Reshape(m.checksums, shape), files |-> <<>>]
      [] layout = "neither"   -> [total_files |-> m.total_files]

RewriteManifest(layout, shape) ==
    /\ g.pc = "done"
    /\ NoVerifierStarted
    /\ "generated" \in DOMAIN manifestFile
    /\ layout = "neither" => shape = "str"
    /\ manifestFile' = Rewritten(manifestFile, layout, shape)
    /\ UNCHANGED <<fs, genFs, edits, script, g, v, valVars>>

\* the size and modified values of every entry are overwritten by hand with
\* values that belong to no file; the sha256 values stay
Restamped(items) ==
    [k \in 1 .. Len(items) |->
        [path |-> items[k].path,
         info |-> [items[k].info EXCEPT !.size = Size(0), !.modified = 0 - 1]]]

Restamp ==
    /\ g.pc = "done"
    /\ NoVerifierStarted
    /\ "generated" \in DOMAIN manifestFile
    /\ Restamped(manifestFile.checksums) # manifestFile.checksums
    /\ manifestFile' = [manifestFile EXCEPT !.checksums = Restamped(@)]
    /\ UNCHANGED <<fs, genFs, edits, script, g, v, valVars>>

(***************************************************************************)
(* verify_checksums.py, and the text generate_verification_script writes.  *)
(***************************************************************************)
\* a manifest with neither key is read as an empty mapping
LoadRepo_lenient(m) ==
    IF "checksums" \in DOMAIN m
    THEN [how |-> "ok", items |-> m.checksums]
    ELSE IF "files" \in DOMAIN m
    THEN [how |-> "ok",
          items |-> [k \in 1 .. Len(m.files) |->
                       [path |-> m.files[k].path, info |-> JObj(m.files[k].info)]]]
    ELSE [how |-> "ok", items |-> <<>>]

\* verify_checksums.py lines 22-30: the mapping the loop runs over, found
\* under `checksums`, else under `files` with each value wrapped as
\* {"sha256": value}, else the format error
LoadRepo(m) ==
    IF "checksums" \in DOMAIN m
    THEN [how |-> "ok", items |-> m.checksums]
    ELSE IF "files" \in DOMAIN m
    THEN [how |-> "ok",
          items |-> [k \in 1 .. Len(m.files) |->
                       [path |-> m.files[k].path, info |-> JObj(m.files[k].info)]]]
    ELSE [how |-> "format_error", items |-> <<>>]

\* the emitted text: checksums = manifest["checksums"], a KeyError when the
\* key is absent
LoadEmitted(m) ==
    IF "checksums" \in DOMAIN m
    THEN [how |-> "ok", items |-> m.checksums]
    ELSE [how |-> "crash", items |-> <<>>]

LoadChecksums(i, m) == IF i = "repo" THEN LoadRepo(m) ELSE LoadEmitted(m)

\* verify_checksums.py line 48: info["sha256"] of a dict, the value itself
\* otherwise
ExpectedRepo(info) == [ok |-> TRUE, val |-> IF IsDict(info) THEN info.sha256 ELSE info]

\* the emitted text: info["sha256"], a TypeError when info is a string
ExpectedEmitted(info) ==
    IF IsDict(info)
    THEN [ok |-> TRUE, val |-> info.sha256]
    ELSE [ok |-> FALSE, val |-> info]

Expected(i, info) == IF i = "repo" THEN ExpectedRepo(info) ELSE ExpectedEmitted(info)

\* an uncaught exception ends the process with a traceback and status 1
Crashed(run) == [run EXCEPT !.pc = "exited", !.outcome = "crash", !.exit = 1]

\* runs do not overlap; the emitted verifier is run after the repository's,
\* on the same manifest and tree
MayRun(i) ==
    /\ g.pc \in {"idle", "done", "failed"}
    /\ i = "emitted" => v["repo"].pc = "exited"

\* the __main__ block, and verify_checksums up to its loop
VMain(i) ==
    /\ v[i].pc = "idle"
    /\ MayRun(i)
    /\ i = "emitted" => script = "emitted"
    /\ IF manifestFile = NoManifest
       THEN v' = [v EXCEPT ![i] = [VIdle EXCEPT !.pc = "exited",
                                                !.outcome = "no_manifest", !.exit = 1]]
       ELSE LET ld == LoadChecksums(i, manifestFile) IN
            CASE ld.how = "format_error" ->
                    v' = [v EXCEPT ![i] = [VIdle EXCEPT !.pc = "exited",
                                                        !.outcome = "format_error",
                                                        !.exit = 1]]
              [] ld.how = "crash" ->
                    v' = [v EXCEPT ![i] = Crashed(VIdle)]
              [] ld.how = "ok" ->
                    v' = [v EXCEPT ![i] = [VIdle EXCEPT !.pc = "loop",
                                                        !.todo = ld.items,
                                                        !.total = Len(ld.items)]]
    /\ UNCHANGED <<fs, genFs, edits, manifestFile, script, g, valVars>>

\* the loop body without the `continue` of line 44: a missing path is
\* recorded and then opened for hashing, which raises
VerifyEntry_noContinue(i, run, f, e) ==
    LET file_path == JoinPath(DataRoot, e.path)
        rest      == [run EXCEPT !.todo = Tail(@)]
    IN  IF ~Exists(f, file_path)
        THEN Crashed([run EXCEPT !.failed = Append(@, <<e.path, "missing">>),
                                 !.hashed = @ \cup {file_path}])
        ELSE IF ~CanHash(f, file_path)
        THEN Crashed(run)
        ELSE LET actual   == JStr(Sha256(f[file_path].data))
                 expected == Expected(i, e.info)
                 hashedR  == [rest EXCEPT !.hashed = @ \cup {file_path}]
             IN  IF ~expected.ok
                 THEN Crashed([run EXCEPT !.hashed = @ \cup {file_path}])
                 ELSE IF PyEq(actual, expected.val)
                 THEN [hashedR EXCEPT !.verified = @ + 1]
                 ELSE [hashedR EXCEPT !.failed = Append(@, <<e.path, "mismatch">>)]

\* the entry is also compared with the file's modification time
VerifyEntry_withModified(i, run, f, e) ==
    LET file_path == JoinPath(DataRoot, e.path)
        rest      == [run EXCEPT !.todo = Tail(@)]
    IN  IF ~Exists(f, file_path)
        THEN [rest EXCEPT !.failed = Append(@, <<e.path, "missing">>)]
        ELSE IF ~CanHash(f, file_path)
        THEN Crashed(run)
        ELSE LET actual   == JStr(Sha256(f[file_path].data))
                 expected == Expected(i, e.info)
                 hashedR  == [rest EXCEPT !.hashed = @ \cup {file_path}]
                 sameTime == \/ ~IsDict(e.info)
                             \/ "modified" \notin DOMAIN e.info
                             \/ e.info.modified = f[file_path].mtime
             IN  IF ~expected.ok
                 THEN Crashed([run EXCEPT !.hashed = @ \cup {file_path}])
                 ELSE IF PyEq(actual, expected.val) /\ sameTime
                 THEN [hashedR EXCEPT !.verified = @ + 1]
                 ELSE [hashedR EXCEPT !.failed = Append(@, <<e.path, "mismatch">>)]

\* an entry also fails when a file written later lies next to its file
VerifyEntry_withNeighbours(i, run, f, e) ==
    LET file_path == JoinPath(DataRoot, e.path)
        rest      == [run EXCEPT !.todo = Tail(@)]
    IN  IF ~Exists(f, file_path)
        THEN [rest EXCEPT !.failed = Append(@, <<e.path, "missing">>)]
        ELSE IF ~CanHash(f, file_path)
        THEN Crashed(run)
        ELSE LET actual   == JStr(Sha256(f[file_path].data))
                 expected == Expected(i, e.info)
                 hashedR  == [rest EXCEPT !.hashed = @ \cup {file_path}]
                 alone    == \A q \in DOMAIN f :
                                 (q # file_path /\ Parent(q) = Parent(file_path)) =>
                                     ~(f[q].kind = "file" /\ f[q].mtime = 1)
             IN  IF ~expected.ok
                 THEN Crashed([run EXCEPT !.hashed = @ \cup {file_path}])
                 ELSE IF PyEq(actual, expected.val) /\ alone
                 THEN [hashedR EXCEPT !.verified = @ + 1]
                 ELSE [hashedR EXCEPT !.failed = Append(@, <<e.path, "mismatch">>)]

\* the body of the loop for one (rel_path, info)
VerifyEntry(i, run, f, e) ==
    LET file_path == JoinPath(DataRoot, e.path)
        rest      == [run EXCEPT !.todo = Tail(@)]
    IN  IF ~Exists(f, file_path)
        THEN [rest EXCEPT !.failed = Append(@, <<e.path, "missing">>)]
        ELSE IF ~CanHash(f, file_path)
        THEN Crashed(run)
        ELSE LET actual   == JStr(Sha256(f[file_path].data))
                 expected == Expected(i, e.info)
                 hashedR  == [rest EXCEPT !.hashed = @ \cup {file_path}]
             IN  IF ~expected.ok
                 THEN Crashed([run EXCEPT !.hashed = @ \cup {file_path}])
                 ELSE IF PyEq(actual, expected.val)
                 THEN [hashedR EXCEPT !.verified = @ + 1]
                 ELSE [hashedR EXCEPT !.failed = Append(@, <<e.path, "mismatch">>)]

\* one pass of the loop
VEntry(i) ==
    /\ v[i].pc = "loop"
    /\ v[i].todo # <<>>
    /\ v' = [v EXCEPT ![i] = VerifyEntry(i, v[i], fs, Head(v[i].todo))]
    /\ UNCHANGED <<fs, genFs, edits, manifestFile, script, g, valVars>>

\* lines 59-66: sys.exit(1) if failed else sys.exit(0)
ExitStatus_inverted(failed) == IF failed # <<>> THEN 0 ELSE 1

ExitStatus(failed) == IF failed # <<>> THEN 1 ELSE 0

\* after the loop: the report and sys.exit
VReport(i) ==
    /\ v[i].pc = "loop"
    /\ v[i].todo = <<>>
    /\ v' = [v EXCEPT ![i] = [v[i] EXCEPT !.pc = "exited", !.outcome = "report",
                                          !.exit = ExitStatus(v[i].failed)]]
    /\ UNCHANGED <<fs, genFs, edits, manifestFile, script, g, valVars>>

(***************************************************************************)
(* The specification.                                                      *)
(***************************************************************************)
Next ==
    \/ \E d \in Roots : GenMain(d)
    \/ \E p \in Universe \cup {P_manifest} : GenVisit(p)
    \/ GenNextPattern
    \/ GenFinish
    \/ \E p \in Universe, c \in Contents : WriteFile(p, c)
    \/ \E p \in Universe : Touch(p)
    \/ \E p \in Universe : Remove(p)
    \/ \E p \in Universe : Mkdir(p)
    \/ \E l \in Layouts, s \in Shapes : RewriteManifest(l, s)
    \/ Restamp
    \/ \E i \in Impl : VMain(i)
    \/ \E i \in Impl : VEntry(i)
    \/ \E i \in Impl : VReport(i)

Spec == Init /\ [][Next]_vars

(***************************************************************************)
(* The generator CLI run again and again, for the data directory results   *)
(* and for the working directory itself, with edits to the tree between    *)
(* the runs.                                                               *)
(***************************************************************************)
\* number of runs of the generator CLI
MaxRuns == 2

\* data_dir arguments: "." and "results"
RootsGen == {Cwd, DataRoot}

InitGen ==
    /\ Init
    /\ IsDir(fs, DataRoot)
    /\ ~Exists(fs, P_sub)
    /\ ~IsDir(fs, P_a)

\* the CLI is started once more
GenAgain ==
    /\ g.pc \in {"done", "failed"}
    /\ g.run < MaxRuns
    /\ g' = [GIdle EXCEPT !.run = g.run]
    /\ UNCHANGED <<fs, genFs, edits, manifestFile, script, v, valVars>>

NextGen ==
    \/ \E d \in RootsGen : GenMain(d)
    \/ \E p \in Universe \cup {P_manifest} : GenVisit(p)
    \/ GenNextPattern
    \/ GenFinish
    \/ GenAgain
    \/ \E p \in Universe, c \in Contents : WriteFile(p, c)
    \/ \E p \in Universe : Remove(p)

SpecGen == InitGen /\ [][NextGen]_vars

(***************************************************************************)
(* scripts/validate_data.py: the validators.                               *)
(*                                                                         *)
(* A validator is a function of the file at file_path.  The file is drawn  *)
(* from a set of base files and changed a bounded number of times, then    *)
(* validate is applied to it; vres holds the ValidationResult it returned, *)
(* or the exception it let through.                                        *)
(***************************************************************************)
\* results elements (operations entries) of a base JSON file: 0 .. MaxResults
MaxResults == 2
\* data rows of a base CSV file: 0 .. MaxRows
MaxRows == 2
\* number of changes made to a base file
MaxOdd == 1

(***************************************************************************)
(* Python values, as json.load builds them.  bool is a subclass of int:    *)
(* True is 1 and False is 0 in comparisons.                                *)
(***************************************************************************)
PyInt(n) == [t |-> "int", n |-> n]

PyFloat(n) == [t |-> "float", n |-> n]

PyBool(b) == [t |-> "bool", n |-> IF b THEN 1 ELSE 0]

PyStr(s) == [t |-> "str", s |-> s]

PyNone == [t |-> "None"]

\* a list: the sequence of its elements
PyList(items) == [t |-> "list", items |-> items]

\* a dict that is only looked up by key: a function from its keys
PyDict(items) == [t |-> "dict", items |-> items]

\* a dict that is iterated: the sequence of its <<key, value>> items
PyItems(items) == [t |-> "dict", pairs |-> items]

\* isinstance(value, (int, float)): true of a bool as well
IsIntOrFloat(x) == x.t \in {"int", "float", "bool"}

\* isinstance(value, int): true of a bool as well
IsInt(x) == x.t \in {"int", "bool"}

\* isinstance(value, dict)
IsPyDict(x) == x.t = "dict"

\* isinstance(value, list)
IsPyList(x) == x.t = "list"

\* key in d
HasKey(d, key) == key \in DOMAIN d.items

(***************************************************************************)
(* ValidationResult, and what a call of validate can end in.               *)
(***************************************************************************)
\* checksum: Optional[str] = None
NoChecksum == <<"None">>

ValidationResult(valid, errors, warnings, checksum) ==
    [t |-> "result", valid |-> valid, errors |-> errors, warnings |-> warnings,
     checksum |-> checksum]

\* validate did not return: the exception went to the caller
Raised(exc) == [t |-> "raised", exc |-> exc]

\* the errors and warnings lists while validate runs
NoMessages == [errors |-> <<>>, warnings |-> <<>>]

AddError(acc, msg) == [acc EXCEPT !.errors = Append(@, msg)]

AddWarning(acc, msg) == [acc EXCEPT !.warnings = Append(@, msg)]

\* a file is valid only when it has neither errors nor warnings
IsValid_strict(acc) == Len(acc.errors) = 0 /\ Len(acc.warnings) = 0

\* is_valid = len(errors) == 0
IsValid(acc) == Len(acc.errors) = 0

\* the digest is taken over the file's bytes and over what stat() tells
GetChecksum_withStat(f) == Sha256(f)

\* what open(file_path, 'rb') reads: the file without its modification time
Bytes(f) == [k \in DOMAIN f \ {"mtime"} |-> f[k]]

\* get_checksum: SHA-256 of the bytes of the file; the record that describes
\* the file stands for its bytes
GetChecksum(f) == Sha256(Bytes(f))

\* Path(file_path).exists()
FileExists(f) == f.disk # "missing"

\* Path(file_path).stat().st_size == 0
FileIsEmpty(f) == f.disk = "empty"

(***************************************************************************)
(* JSONValidator                                                           *)
(***************************************************************************)
\* self.required_fields, as the factory and the CLI construct the validator
RequiredFields == <<"algorithm">>

\* stat_fields of the `results` format
StatFields == <<"mean_us", "median_us", "stddev_us", "min_us", "max_us">>

\* stat_fields of the `operations` format
LegacyStatFields == <<"min", "max", "mean", "median", "stddev">>

\* num_samples below this draws a warning
MinSamples == 100

\* a JSON file: missing, zero-length, or bytes that are not text in the
\* reader's encoding, text that is not JSON, or the text of the value `data`
JsonFile(disk, text, data) == [kind |-> "json", disk |-> disk, text |-> text, data |-> data]

\* open(file_path, 'r') and json.load(f): the value, or the exception raised
JsonLoad(f) ==
    IF f.disk = "directory" THEN [exc |-> "IsADirectoryError"]
    ELSE IF f.text = "undecodable" THEN [exc |-> "UnicodeDecodeError"]
    ELSE IF f.text = "malformed" THEN [exc |-> "JSONDecodeError"]
    ELSE [exc |-> "none", data |-> f.data]

RECURSIVE MissingRequired(_, _)
\* the errors of the required-fields loop
MissingRequired(fields, data) ==
    IF fields = <<>> THEN <<>>
    ELSE (IF ~HasKey(data, Head(fields))
          THEN <<<<"Missing required field", Head(fields)>>>>
          ELSE <<>>) \o MissingRequired(Tail(fields), data)

\* [f for f in stat_fields if f not in result]
MissingStats(fields, d) == SelectSeq(fields, LAMBDA f : ~HasKey(d, f))

\* not isinstance(value, (int, float)) or value < 0
BadStat(value) == ~IsIntOrFloat(value) \/ value.n < 0


RECURSIVE StatErrors(_, _, _)
\* the errors of the loop over stat_fields, for one element of results
StatErrors(fields, result, idx) ==
    IF fields = <<>> THEN <<>>
    ELSE (IF HasKey(result, Head(fields)) /\ BadStat(result.items[Head(fields)])
          THEN <<<<"Invalid stat", Head(fields), idx, result.items[Head(fields)]>>>>
          ELSE <<>>) \o StatErrors(Tail(fields), result, idx)

\* not isinstance(num_samples, int) or num_samples < 100
LowSamples(value) == ~IsInt(value) \/ value.n < MinSamples

\* the body of the loop over data['results'], for element number idx
CheckResult(acc, result, idx) ==
    IF ~IsPyDict(result)
    THEN AddError(acc, <<"Result must be an object", idx>>)
    ELSE
        LET a1 == IF ~HasKey(result, "operation")
                  THEN AddWarning(acc, <<"Result missing 'operation' field", idx>>)
                  ELSE acc
            missing_stats == MissingStats(StatFields, result)
            a2 == IF missing_stats # <<>>
                  THEN AddWarning(a1, <<"Result missing stats", idx, missing_stats>>)
                  ELSE a1
            a3 == [a2 EXCEPT !.errors = @ \o StatErrors(StatFields, result, idx)]
        IN  IF HasKey(result, "num_samples") /\ LowSamples(result.items["num_samples"])
            THEN AddWarning(a3, <<"Low sample count", idx, result.items["num_samples"]>>)
            ELSE a3

RECURSIVE CheckResults(_, _, _)
\* for idx, result in enumerate(data['results'])
CheckResults(acc, results, idx) ==
    IF idx >= Len(results) THEN acc
    ELSE CheckResults(CheckResult(acc, results[idx + 1], idx), results, idx + 1)

\* the body of the loop over data['operations'].items()
CheckOperation(acc, op_name, op_data) ==
    IF ~IsPyDict(op_data)
    THEN AddError(acc, <<"Operation must be an object", op_name>>)
    ELSE
        LET missing_stats == MissingStats(LegacyStatFields, op_data)
        IN  IF missing_stats # <<>>
            THEN AddWarning(acc, <<"Operation missing stats", op_name, missing_stats>>)
            ELSE acc

RECURSIVE CheckOperations(_, _)
\* for op_name, op_data in data['operations'].items()
CheckOperations(acc, pairs) ==
    IF pairs = <<>> THEN acc
    ELSE CheckOperations(CheckOperation(acc, Head(pairs)[1], Head(pairs)[2]), Tail(pairs))

\* the operations checks are made after the results checks, not instead
JsonSchema_bothShapes(data) ==
    LET a1 == [NoMessages EXCEPT !.errors = MissingRequired(RequiredFields, data)]
        a2 == IF HasKey(data, "results") /\ IsPyList(data.items["results"])
              THEN CheckResults(a1, data.items["results"].items, 0)
              ELSE a1
    IN  IF HasKey(data, "operations") /\ IsPyDict(data.items["operations"])
        THEN CheckOperations(a2, data.items["operations"].pairs)
        ELSE a2

\* the schema checks on a root that is an object
JsonSchema(data) ==
    LET a1 == [NoMessages EXCEPT !.errors = MissingRequired(RequiredFields, data)]
    IN  IF HasKey(data, "results") /\ IsPyList(data.items["results"])
        THEN CheckResults(a1, data.items["results"].items, 0)
        ELSE IF HasKey(data, "operations") /\ IsPyDict(data.items["operations"])
        THEN CheckOperations(a1, data.items["operations"].pairs)
        ELSE a1

\* a fast-fail return: ValidationResult(False, errors, warnings, file_path)
FastFail(acc, msg) ==
    ValidationResult(FALSE, AddError(acc, msg).errors, acc.warnings, NoChecksum)

\* the checksum is attached to valid results only
Complete_checksumWhenValid(f, acc) ==
    ValidationResult(IsValid(acc), acc.errors, acc.warnings,
                     IF IsValid(acc) THEN GetChecksum(f) ELSE NoChecksum)

\* the normal return: checksum, is_valid, ValidationResult(...)
Complete(f, acc) ==
    ValidationResult(IsValid(acc), acc.errors, acc.warnings, GetChecksum(f))

\* JSONValidator.validate(file_path)
JsonValidate(f) ==
    IF ~FileExists(f) THEN FastFail(NoMessages, <<"File not found">>)
    ELSE IF FileIsEmpty(f) THEN FastFail(NoMessages, <<"File is empty">>)
    ELSE
        LET loaded == JsonLoad(f) IN
        IF loaded.exc = "JSONDecodeError" THEN FastFail(NoMessages, <<"Invalid JSON">>)
        ELSE IF loaded.exc # "none" THEN Raised(loaded.exc)
        ELSE IF ~IsPyDict(loaded.data)
        THEN FastFail(NoMessages, <<"Root element must be a JSON object">>)
        ELSE Complete(f, JsonSchema(loaded.data))

(***************************************************************************)
(* CSVValidator                                                            *)
(***************************************************************************)
\* self.expected_columns, as the factory and the CLI construct the validator
ExpectedColumns == <<"algorithm", "operation", "iterations", "mean", "median">>

\* for col in ['algorithm', 'operation']
CriticalCols == <<"algorithm", "operation">>

\* numeric_cols
NumericCols == <<"iterations", "mean", "median", "min", "max", "stddev">>

\* a CSV file: missing, zero-length, a directory, or bytes; the bytes are
\* not text in the reader's encoding, or they are the text of a first line
\* (header, the sequence of its cells) and of the lines after it (rows).
\* The files of the model are shorter than the reader's buffer, so bytes
\* that cannot be decoded fail the first read.
CsvFile(disk, text, header, rows) ==
    [kind |-> "csv", disk |-> disk, text |-> text, header |-> header, rows |-> rows]

\* open(file_path, 'r') and reader.fieldnames: the exception raised, if any
CsvOpen(f) ==
    IF f.disk = "directory" THEN "IsADirectoryError"
    ELSE IF f.text = "undecodable" THEN "UnicodeDecodeError"
    ELSE "none"

\* the texts a cell of the model holds
CellTexts == {"", " ", "abc", "12", "-5", "0", "ML-KEM-512", "keygen", "1000"}

\* str.strip()
Strip(s) == IF s = " " THEN "" ELSE s

\* float(s): the number, or ValueError
ParseFloat(s) ==
    IF s = "12" THEN [ok |-> TRUE, n |-> 12]
    ELSE IF s = "-5" THEN [ok |-> TRUE, n |-> 0 - 5]
    ELSE IF s = "0" THEN [ok |-> TRUE, n |-> 0]
    ELSE IF s = "1000" THEN [ok |-> TRUE, n |-> 1000]
    ELSE [ok |-> FALSE]

\* the dict DictReader builds for a line: the cells under the header's
\* names, None (restval) under the names the line has no cell for
DictRow(header, cells) == [header |-> header, cells |-> cells]

\* col in row
InRow(row, col) == \E i \in 1 .. Len(row.header) : row.header[i] = col

\* row[col], for a col in row
RowGet(row, col) ==
    LET last == CHOOSE i \in 1 .. Len(row.header) :
                    /\ row.header[i] = col
                    /\ \A j \in 1 .. Len(row.header) : row.header[j] = col => j <= i
    IN  IF last > Len(row.cells) THEN PyNone ELSE PyStr(row.cells[last])

\* the scan of the rows: messages so far, rows seen, exception raised
ScanStart(acc) == [acc |-> acc, row_count |-> 0, exc |-> "none"]


\* if col in row and not row[col].strip(): errors.append(...)
CriticalCell(st, row, col, row_num) ==
    IF ~InRow(row, col) THEN st
    ELSE IF RowGet(row, col) = PyNone THEN [st EXCEPT !.exc = "AttributeError"]
    ELSE IF Strip(RowGet(row, col).s) = ""
    THEN [st EXCEPT !.acc = AddError(@, <<"Empty value", row_num, col>>)]
    ELSE st


\* if col in row and row[col].strip(): try: float(row[col]) ... except ValueError
NumericCell(st, row, col, row_num) ==
    IF ~InRow(row, col) THEN st
    ELSE IF RowGet(row, col) = PyNone THEN [st EXCEPT !.exc = "AttributeError"]
    ELSE IF Strip(RowGet(row, col).s) = "" THEN st
    ELSE
        LET val == ParseFloat(RowGet(row, col).s) IN
        IF ~val.ok
        THEN [st EXCEPT !.acc =
                AddError(@, <<"Invalid numeric value", row_num, col, RowGet(row, col).s>>)]
        ELSE IF val.n < 0
        THEN [st EXCEPT !.acc = AddError(@, <<"Negative value", row_num, col, val.n>>)]
        ELSE st

RECURSIVE CriticalLoop(_, _, _, _)
\* for col in ['algorithm', 'operation'], until an exception is raised
CriticalLoop(st, row, cols, row_num) ==
    IF cols = <<>> \/ st.exc # "none" THEN st
    ELSE CriticalLoop(CriticalCell(st, row, Head(cols), row_num), row, Tail(cols), row_num)

RECURSIVE NumericLoop(_, _, _, _)
\* for col in numeric_cols, until an exception is raised
NumericLoop(st, row, cols, row_num) ==
    IF cols = <<>> \/ st.exc # "none" THEN st
    ELSE NumericLoop(NumericCell(st, row, Head(cols), row_num), row, Tail(cols), row_num)

\* the body of the loop over the rows
CheckRow(st, row, row_num) ==
    NumericLoop(CriticalLoop([st EXCEPT !.row_count = @ + 1], row, CriticalCols, row_num),
                row, NumericCols, row_num)


RECURSIVE ScanRows(_, _, _, _)
\* for row_num, row in enumerate(reader, start=2): DictReader passes over
\* lines without cells; an exception ends the scan
ScanRows(st, header, lines, row_num) ==
    IF lines = <<>> \/ st.exc # "none" THEN st
    ELSE IF Head(lines) = <<>> THEN ScanRows(st, header, Tail(lines), row_num)
    ELSE ScanRows(CheckRow(st, DictRow(header, Head(lines)), row_num),
                  header, Tail(lines), row_num + 1)

\* [col for col in self.expected_columns if col not in headers]
MissingCols(headers) ==
    SelectSeq(ExpectedColumns, LAMBDA c : \A i \in 1 .. Len(headers) : headers[i] # c)

\* the result made in the handler carries the checksum as well
OnException_withChecksum(f, acc, exc) ==
    ValidationResult(FALSE, AddError(acc, <<"Error parsing CSV", exc>>).errors,
                     acc.warnings, GetChecksum(f))

\* except Exception as e: errors.append(...); return ValidationResult(False, ...)
OnException(f, acc, exc) == FastFail(acc, <<"Error parsing CSV", exc>>)

\* reader.fieldnames: the first line, None when the reader has no line at all
FieldNames(f) == f.header

\* CSVValidator.validate(file_path)
CsvValidate(f) ==
    IF ~FileExists(f) THEN FastFail(NoMessages, <<"File not found">>)
    ELSE IF FileIsEmpty(f) THEN FastFail(NoMessages, <<"File is empty">>)
    ELSE IF CsvOpen(f) # "none" THEN OnException(f, NoMessages, CsvOpen(f))
    ELSE
        LET headers == FieldNames(f) IN
        IF headers = PyNone THEN FastFail(NoMessages, <<"CSV file has no headers">>)
        ELSE
            LET missing_cols == MissingCols(headers)
                a1 == IF missing_cols # <<>>
                      THEN AddWarning(NoMessages, <<"Missing expected columns", missing_cols>>)
                      ELSE NoMessages
                scan == ScanRows(ScanStart(a1), headers, f.rows, 2)
            IN  IF scan.exc # "none" THEN OnException(f, scan.acc, scan.exc)
                ELSE IF scan.row_count = 0
                THEN Complete(f, AddWarning(scan.acc, <<"CSV file has no data rows">>))
                ELSE Complete(f, scan.acc)

(***************************************************************************)
(* The files handed to the validators.                                     *)
(***************************************************************************)
Range(s) == {s[i] : i \in 1 .. Len(s)}

\* the keys of an element of results
ResultKeys == {"operation", "num_samples"} \cup Range(StatFields)

\* a well-formed element of results
DefaultResult ==
    PyDict([k \in ResultKeys |->
                IF k = "operation" THEN PyStr("keygen")
                ELSE IF k = "num_samples" THEN PyInt(1000)
                ELSE PyFloat(12)])

\* a well-formed entry of operations
DefaultOperation == PyDict([k \in Range(LegacyStatFields) |-> PyFloat(12)])

OpName(i) == <<"op", i>>

\* an element of results with a string and a negative number for statistics
DefectiveResult ==
    PyDict([k \in ResultKeys |->
                IF k = "mean_us" THEN PyStr("x")
                ELSE IF k = "min_us" THEN PyFloat(0 - 1)
                ELSE DefaultResult.items[k]])

\* {"algorithm": ..., "results": [...]}
ResultsRoot(results) ==
    PyDict([key \in {"algorithm", "results"} |->
                IF key = "algorithm" THEN PyStr("ML-KEM-512") ELSE PyList(results)])

\* {"algorithm": ..., "operations": {k entries}}
LegacyRoot(k) ==
    PyDict([key \in {"algorithm", "operations"} |->
                IF key = "algorithm" THEN PyStr("ML-KEM-512")
                ELSE PyItems([i \in 1 .. k |-> <<OpName(i), DefaultOperation>>])])

\* an operations mapping with an entry that is not an object and an entry
\* that lacks min and stddev
DefectiveOperations ==
    PyItems(<<<<OpName(1), PyStr("x")>>,
              <<OpName(2), PyDict([k \in {"max", "mean", "median"} |-> PyFloat(12)])>>>>)

\* JSON roots that are not objects
NonObjectRoots == {PyList(<<>>), PyStr("x"), PyInt(1), PyNone}

JsonBaseFiles ==
    {JsonFile("missing", "none", PyNone), JsonFile("empty", "none", PyNone),
     JsonFile("directory", "none", PyNone),
     JsonFile("bytes", "undecodable", PyNone), JsonFile("bytes", "malformed", PyNone)}
    \cup {JsonFile("bytes", "json", d) : d \in NonObjectRoots}
    \cup {JsonFile("bytes", "json", ResultsRoot(results)) :
            results \in UNION {[1 .. k -> {DefaultResult, DefectiveResult}] :
                                  k \in 0 .. MaxResults}}
    \cup {JsonFile("bytes", "json", LegacyRoot(k)) : k \in 1 .. MaxResults}
    \cup {JsonFile("bytes", "json",
                   PyDict([key \in {"algorithm", "operations"} |->
                              IF key = "algorithm" THEN PyStr("ML-KEM-512")
                              ELSE DefectiveOperations]))}

\* values written under a statistic field
StatValues == {PyInt(0), PyFloat(0 - 1), PyBool(TRUE), PyStr("x"), PyNone, PyList(<<>>)}

\* values written under num_samples
SampleValues == {PyInt(99), PyInt(100), PyFloat(100)}

\* values that stand where an object is expected
NonObjects == {PyStr("x"), PyNone}

\* headers of the base CSV files
Headers ==
    {ExpectedColumns,
     <<"algorithm", "operation", "max", "notes">>,
     <<"mean", "algorithm">>}

\* the cell of a well-formed row
DefaultCell(col) ==
    IF col = "algorithm" THEN "ML-KEM-512"
    ELSE IF col = "operation" THEN "keygen"
    ELSE IF col = "notes" THEN "abc"
    ELSE IF col = "iterations" THEN "1000"
    ELSE "12"

DefaultRow(h) == [i \in 1 .. Len(h) |-> DefaultCell(h[i])]

\* a row with a blank operation cell and a negative mean
DefectiveRow(h) ==
    [i \in 1 .. Len(h) |->
        IF h[i] = "operation" THEN " "
        ELSE IF h[i] = "mean" THEN "-5"
        ELSE DefaultCell(h[i])]

\* texts written into a cell
OddTexts == {"", " ", "abc", "-5", "0"}

\* the CSV texts with header h and up to MaxRows rows
CsvFilesWith(h) ==
    {CsvFile("bytes", "csv", h, rows) :
        rows \in UNION {[1 .. k -> {DefaultRow(h), DefectiveRow(h)}] : k \in 0 .. MaxRows}}

CsvBaseFiles ==
    {CsvFile("missing", "none", <<>>, <<>>), CsvFile("empty", "none", <<>>, <<>>),
     CsvFile("directory", "none", <<>>, <<>>), CsvFile("bytes", "undecodable", <<>>, <<>>)}
    \cup UNION {CsvFilesWith(h) : h \in Headers}

\* the longest header of the base files
MaxCells == Len(ExpectedColumns) + 1

InitVal ==
    /\ fs = [p \in Universe |-> Absent]
    /\ genFs = fs
    /\ edits = 0
    /\ manifestFile = NoManifest
    /\ script = "repo"
    /\ g = GIdle
    /\ v = [i \in Impl |-> VIdle]
    /\ vfile \in JsonBaseFiles \cup CsvBaseFiles
    /\ vodd = 0
    /\ vres = NotCalled
    /\ bdir = NoDir
    /\ brun = NotStarted

\* the file can still be changed: validate was not called on it
Changeable == vres = NotCalled /\ vodd < MaxOdd

\* the file holds a JSON object
HoldsObject == vfile.kind = "json" /\ vfile.text = "json" /\ IsPyDict(vfile.data)

\* the file holds a JSON object with a results list
HoldsResults ==
    HoldsObject /\ HasKey(vfile.data, "results") /\ IsPyList(vfile.data.items["results"])

\* the file holds a JSON object with an operations object
HoldsOperations ==
    HoldsObject /\ HasKey(vfile.data, "operations")
                /\ IsPyDict(vfile.data.items["operations"])

\* the file holds CSV text
HoldsRows == vfile.kind = "csv" /\ vfile.text = "csv"

\* d without key
DelKey(d, key) == PyDict([k \in DOMAIN d.items \ {key} |-> d.items[k]])

\* d with d[key] = val
SetKey(d, key, val) ==
    PyDict([k \in DOMAIN d.items \cup {key} |-> IF k = key THEN val ELSE d.items[k]])

Changed(f) ==
    /\ vfile' = f
    /\ vfile' # vfile
    /\ vodd' = vodd + 1
    /\ UNCHANGED <<sumVars, vres, batVars>>

\* a key of the root object is removed
JDelRootKey(key) ==
    /\ Changeable /\ HoldsObject
    /\ HasKey(vfile.data, key)
    /\ Changed([vfile EXCEPT !.data = DelKey(@, key)])

\* results or operations is given a value of another type, or operations
\* is put next to results
JSetRootKey(key, val) ==
    /\ Changeable /\ HoldsObject
    /\ Changed([vfile EXCEPT !.data = SetKey(@, key, val)])

\* an element of results is replaced by a value that is not an object
JSetResult(i, val) ==
    /\ Changeable /\ HoldsResults
    /\ i \in 1 .. Len(vfile.data.items["results"].items)
    /\ Changed([vfile EXCEPT !.data.items["results"].items[i] = val])

\* a field of an element of results is given another value
JSetResultKey(i, key, val) ==
    /\ Changeable /\ HoldsResults
    /\ i \in 1 .. Len(vfile.data.items["results"].items)
    /\ IsPyDict(vfile.data.items["results"].items[i])
    /\ Changed([vfile EXCEPT !.data.items["results"].items[i] = SetKey(@, key, val)])

\* a field of an element of results is removed
JDelResultKey(i, key) ==
    /\ Changeable /\ HoldsResults
    /\ i \in 1 .. Len(vfile.data.items["results"].items)
    /\ IsPyDict(vfile.data.items["results"].items[i])
    /\ HasKey(vfile.data.items["results"].items[i], key)
    /\ Changed([vfile EXCEPT !.data.items["results"].items[i] = DelKey(@, key)])

\* an entry of operations is replaced by a value that is not an object
JSetOperation(i, val) ==
    /\ Changeable /\ HoldsOperations
    /\ i \in 1 .. Len(vfile.data.items["operations"].pairs)
    /\ Changed([vfile EXCEPT !.data.items["operations"].pairs[i][2] = val])

\* a statistic of an entry of operations is removed
JDelOperationStat(i, key) ==
    /\ Changeable /\ HoldsOperations
    /\ i \in 1 .. Len(vfile.data.items["operations"].pairs)
    /\ IsPyDict(vfile.data.items["operations"].pairs[i][2])
    /\ HasKey(vfile.data.items["operations"].pairs[i][2], key)
    /\ Changed([vfile EXCEPT !.data.items["operations"].pairs[i][2] = DelKey(@, key)])

\* a cell of a row is overwritten
CSetCell(r, c, text) ==
    /\ Changeable /\ HoldsRows
    /\ r \in 1 .. Len(vfile.rows)
    /\ c \in 1 .. Len(vfile.rows[r])
    /\ Changed([vfile EXCEPT !.rows[r][c] = text])

\* a row loses its cells from cell n + 1 on
CTruncateRow(r, n) ==
    /\ Changeable /\ HoldsRows
    /\ r \in 1 .. Len(vfile.rows)
    /\ n < Len(vfile.rows[r])
    /\ Changed([vfile EXCEPT !.rows[r] = SubSeq(@, 1, n)])

\* a row gets one more cell than the header has names
CExtendRow(r) ==
    /\ Changeable /\ HoldsRows
    /\ r \in 1 .. Len(vfile.rows)
    /\ Len(vfile.rows[r]) = Len(vfile.header)
    /\ Changed([vfile EXCEPT !.rows[r] = Append(@, "abc")])

\* JSONValidator().validate(file_path)
JValidate ==
    /\ vfile.kind = "json"
    /\ vres = NotCalled
    /\ vres' = JsonValidate(vfile)
    /\ UNCHANGED <<sumVars, vfile, vodd, batVars>>

\* CSVValidator().validate(file_path)
CValidate ==
    /\ vfile.kind = "csv"
    /\ vres = NotCalled
    /\ vres' = CsvValidate(vfile)
    /\ UNCHANGED <<sumVars, vfile, vodd, batVars>>

NextVal ==
    \/ \E key \in {"algorithm", "results", "operations"} : JDelRootKey(key)
    \/ \E key \in {"results", "operations"} :
           \E val \in NonObjects \cup {DefectiveOperations} :
               JSetRootKey(key, val)
    \/ \E i \in 1 .. MaxResults, val \in NonObjects : JSetResult(i, val)
    \/ \E i \in 1 .. MaxResults, key \in Range(StatFields), val \in StatValues :
           JSetResultKey(i, key, val)
    \/ \E i \in 1 .. MaxResults, val \in SampleValues : JSetResultKey(i, "num_samples", val)
    \/ \E i \in 1 .. MaxResults, key \in ResultKeys : JDelResultKey(i, key)
    \/ \E i \in 1 .. MaxResults, val \in NonObjects : JSetOperation(i, val)
    \/ \E i \in 1 .. MaxResults, key \in Range(LegacyStatFields) : JDelOperationStat(i, key)
    \/ \E r \in 1 .. MaxRows, c \in 1 .. MaxCells, text \in OddTexts : CSetCell(r, c, text)
    \/ \E r \in 1 .. MaxRows, n \in 0 .. MaxCells - 1 : CTruncateRow(r, n)
    \/ \E r \in 1 .. MaxRows : CExtendRow(r)
    \/ JValidate
    \/ CValidate

SpecVal == InitVal /\ [][NextVal]_vars

(***************************************************************************)
(* scripts/validate_data.py: ValidatorFactory, validate_directory and the  *)
(* CLI (main, print_validation_summary).                                   *)
(*                                                                         *)
(* bdir is the directory the CLI is pointed at: each path below it holds   *)
(* nothing, a directory, or a file (a file record of the validators with   *)
(* its modification time).  brun is the run of main().                     *)
(***************************************************************************)
\* the directory itself, and a path that is nowhere on disk
BRoot == <<>>

BMissing == <<Nm("nowhere", "")>>

B_a == <<Nm("a", ".json")>>

B_b == <<Nm("b", ".csv")>>

B_sub == <<Nm("sub", "")>>

B_c == <<Nm("sub", ""), Nm("c", ".json")>>

\* a file named ".json": pathlib gives it the suffix ""
B_dot == <<Nm(".json", "")>>

B_Z == <<Nm("Z", ".JSON")>>

B_notes == <<Nm("notes", ".txt")>>

BPaths == {B_a, B_b, B_sub, B_c, B_dot, B_Z, B_notes}

\* a file record with the modification time t
Stamped(f, t) == [k \in DOMAIN f \cup {"mtime"} |-> IF k = "mtime" THEN t ELSE f[k]]

DirEntry == [kind |-> "dir"]

GoodJson == JsonFile("bytes", "json", ResultsRoot(<<DefaultResult>>))

\* the contents of a path named *.json: a valid file, a file with schema
\* errors, malformed JSON, undecodable bytes, a directory
JsonEntries ==
    {Stamped(f, 0) : f \in {GoodJson,
                            JsonFile("bytes", "json", ResultsRoot(<<DefectiveResult>>)),
                            JsonFile("bytes", "malformed", PyNone),
                            JsonFile("bytes", "undecodable", PyNone),
                            JsonFile("directory", "none", PyNone)}}

\* the contents of a path named *.csv: a valid file, a file with a short
\* row, a directory
CsvEntries ==
    {Stamped(f, 0) :
        f \in {CsvFile("bytes", "csv", ExpectedColumns, <<DefaultRow(ExpectedColumns)>>),
               CsvFile("bytes", "csv", ExpectedColumns,
                       <<SubSeq(DefaultRow(ExpectedColumns), 1, 2)>>),
               CsvFile("directory", "none", <<>>, <<>>)}}

\* the other files of the directory: none, a file whose name only looks
\* like a data file, data files the patterns do not match
Extras ==
    {[p \in {B_dot, B_Z, B_notes} |-> NoFile],
     [p \in {B_dot, B_Z, B_notes} |->
         IF p = B_notes THEN Stamped([kind |-> "other", disk |-> "bytes"], 0)
         ELSE Stamped(GoodJson, 0)]}

\* the directories
BDirs ==
    {[p \in BPaths |->
         CASE p = B_a -> a
           [] p = B_b -> b
           [] p = B_sub -> (IF sub \/ c # NoFile THEN DirEntry ELSE NoFile)
           [] p = B_c -> c
           [] OTHER -> x[p]] :
     a \in JsonEntries \cup {NoFile},
     b \in CsvEntries \cup {NoFile},
     sub \in BOOLEAN,
     c \in {NoFile, Stamped(GoodJson, 0), Stamped(JsonFile("bytes", "malformed", PyNone), 0)},
     x \in Extras}

\* Path.is_dir() and Path.is_file() of a path below the directory
BIsDir(d, p) ==
    \/ p = BRoot
    \/ /\ p \in DOMAIN d
       /\ \/ d[p].kind = "dir"
          \/ d[p].kind \in {"json", "csv"} /\ d[p].disk = "directory"

BIsFile(d, p) ==
    /\ p \in DOMAIN d
    /\ d[p].kind \in {"json", "csv", "other"}
    /\ d[p].disk # "directory"

\* str.lower() of a suffix
Lower(ext) ==
    CASE ext = ".JSON" -> ".json"
      [] ext = ".CSV" -> ".csv"
      [] OTHER -> ext

\* ValidatorFactory.create_validator: "json" for JSONValidator(), "csv" for
\* CSVValidator(), "none" for None
CreateValidator(p) ==
    LET extension == Lower(p[Len(p)][2])
    IN  IF extension = ".json" THEN "json"
        ELSE IF extension = ".csv" THEN "csv"
        ELSE "none"

\* validator.validate(str(file_path))
ValidateWith(validator, f) ==
    IF validator = "json" THEN JsonValidate(f) ELSE CsvValidate(f)

\* patterns = ['*.json', '*.csv']
BatchPatterns == <<Nm("*", ".json"), Nm("*", ".csv")>>

\* fnmatch of a name's text against "*<ext>": the text ends with ext
GlobMatches(n, pat) == n[2] = pat[2] \/ (n[2] = "" /\ n[1] = pat[2])

\* dir_path.rglob(pattern) if recursive else dir_path.glob(pattern):
\* files and directories alike
Glob(d, dir, recursive, pat) ==
    {p \in DOMAIN d :
        /\ d[p].kind # "none"
        /\ IsPrefix(dir, p)
        /\ recursive \/ Len(p) = Len(dir) + 1
        /\ GlobMatches(p[Len(p)], pat)}

\* the orders in which a traversal can yield a set of paths
Orders(S) ==
    {s \in [1 .. Cardinality(S) -> S] : \A i, j \in 1 .. Cardinality(S) : s[i] = s[j] => i = j}

\* the names of the model in the order of Python's str comparison
NameOrder == <<".json", "Z.JSON", "a.json", "b.csv", "c.json", "notes.txt", "sub">>

NameRank(n) == CHOOSE i \in 1 .. Len(NameOrder) : NameOrder[i] = NameText(n)

RECURSIVE PathLess(_, _)
\* Path.__lt__: the parts compared as sequences
PathLess(p, q) ==
    IF q = <<>> THEN FALSE
    ELSE IF p = <<>> THEN TRUE
    ELSE IF Head(p) = Head(q) THEN PathLess(Tail(p), Tail(q))
    ELSE NameRank(Head(p)) < NameRank(Head(q))

RECURSIVE Insert(_, _)
Insert(p, sorted) ==
    IF sorted = <<>> THEN <<p>>
    ELSE IF PathLess(p, Head(sorted)) THEN <<p>> \o sorted
    ELSE <<Head(sorted)>> \o Insert(p, Tail(sorted))

\* the files are validated in the order the traversal found them
Sorted_asFound(files) == files

RECURSIVE Sorted(_)
\* sorted(files)
Sorted(files) ==
    IF files = <<>> THEN <<>> ELSE Insert(Head(files), Sorted(Tail(files)))

BIdle ==
    [pc |-> "idle", path |-> BRoot, recursive |-> FALSE, quiet |-> FALSE,
     checksums |-> FALSE, canWrite |-> TRUE, files |-> <<>>, todo |-> <<>>,
     results |-> <<>>, raised |-> "none", exit |-> NoExit, again |-> NotCalled]

\* before the CLI is started: a directory, and whether checksums.txt next to
\* it can be opened for writing
InitBatch ==
    /\ fs = [p \in Universe |-> Absent]
    /\ genFs = fs
    /\ edits = 0
    /\ manifestFile = NoManifest
    /\ script = "repo"
    /\ g = GIdle
    /\ v = [i \in Impl |-> VIdle]
    /\ vfile = NoFile
    /\ vodd = 0
    /\ vres = NotCalled
    /\ bdir \in BDirs
    /\ \E w \in BOOLEAN : brun = [BIdle EXCEPT !.canWrite = w]

\* an uncaught exception ends main() with a traceback and status 1
BCrashed(run, exc) == [run EXCEPT !.pc = "exited", !.raised = exc, !.exit = 1]

\* main(): the arguments, and the branch on the kind of path
BMain(path, recursive, quiet, checksums) ==
    /\ brun.pc = "idle"
    /\ LET run == [brun EXCEPT !.path = path, !.recursive = recursive,
                               !.quiet = quiet, !.checksums = checksums]
       IN  IF BIsFile(bdir, path)
           THEN LET validator == CreateValidator(path) IN
                IF validator = "none"
                THEN brun' = [run EXCEPT !.pc = "exited", !.exit = 1]
                ELSE LET result == ValidateWith(validator, bdir[path]) IN
                     IF result.t = "raised"
                     THEN brun' = BCrashed(run, result.exc)
                     ELSE brun' = [run EXCEPT !.pc = "report",
                                              !.results = <<[path |-> path, res |-> result]>>]
           ELSE IF BIsDir(bdir, path)
           THEN brun' = [run EXCEPT !.pc = "collect"]
           ELSE brun' = [run EXCEPT !.pc = "exited", !.exit = 1]
    /\ UNCHANGED <<sumVars, vfile, vodd, vres, bdir>>

\* validate_directory: the two traversals, then sorted(files)
BCollect ==
    /\ brun.pc = "collect"
    /\ \E js \in Orders(Glob(bdir, brun.path, brun.recursive, BatchPatterns[1])),
          cs \in Orders(Glob(bdir, brun.path, brun.recursive, BatchPatterns[2])) :
            brun' = [brun EXCEPT !.pc = "validate", !.files = js \o cs,
                                 !.todo = Sorted(js \o cs)]
    /\ UNCHANGED <<sumVars, vfile, vodd, vres, bdir>>

\* validate_directory: one pass of the loop over sorted(files)
BValidateNext ==
    /\ brun.pc = "validate"
    /\ brun.todo # <<>>
    /\ LET file_path == Head(brun.todo)
           validator == CreateValidator(file_path)
           rest      == [brun EXCEPT !.todo = Tail(@)]
       IN  IF validator = "none" THEN brun' = rest
           ELSE LET result == ValidateWith(validator, bdir[file_path]) IN
                IF result.t = "raised"
                THEN brun' = BCrashed(brun, result.exc)
                ELSE brun' = [rest EXCEPT !.results =
                                 Append(@, [path |-> file_path, res |-> result])]
    /\ UNCHANGED <<sumVars, vfile, vodd, vres, bdir>>

\* validate_directory returns its results to main
BReturn ==
    /\ brun.pc = "validate"
    /\ brun.todo = <<>>
    /\ brun' = [brun EXCEPT !.pc = "report"]
    /\ UNCHANGED <<sumVars, vfile, vodd, vres, bdir>>

\* print_validation_summary: invalid == 0
AllValid(results) == \A k \in 1 .. Len(results) : results[k].res.valid

\* main(): the prints, the summary, checksums.txt, the return value
BReport ==
    /\ brun.pc = "report"
    /\ IF brun.checksums /\ brun.results # <<>> /\ ~brun.canWrite
       THEN brun' = BCrashed(brun, "OSError")
       ELSE brun' = [brun EXCEPT !.pc = "exited",
                                 !.exit = IF AllValid(brun.results) THEN 0 ELSE 1]
    /\ UNCHANGED <<sumVars, vfile, vodd, vres, bdir>>

\* after the run a file is touched: a new modification time, the same bytes
BTouch(p) ==
    /\ brun.pc = "exited"
    /\ brun.again = NotCalled
    /\ BIsFile(bdir, p)
    /\ \A q \in BPaths : BIsFile(bdir, q) => bdir[q].mtime = 0
    /\ bdir' = [bdir EXCEPT ![p] = Stamped(@, 1)]
    /\ UNCHANGED <<sumVars, vfile, vodd, vres, brun>>

\* after the run a file is validated once more, on its own
BAgain(p) ==
    /\ brun.pc = "exited"
    /\ brun.again = NotCalled
    /\ BIsFile(bdir, p)
    /\ CreateValidator(p) # "none"
    /\ brun' = [brun EXCEPT !.again =
                   [path |-> p, res |-> ValidateWith(CreateValidator(p), bdir[p])]]
    /\ UNCHANGED <<sumVars, vfile, vodd, vres, bdir>>

NextBatch ==
    \/ \E path \in BPaths \cup {BRoot, BMissing} :
           \E recursive, quiet, checksums \in BOOLEAN :
               BMain(path, recursive, quiet, checksums)
    \/ BCollect
    \/ BValidateNext
    \/ BReturn
    \/ BReport
    \/ \E p \in BPaths : BTouch(p)
    \/ \E p \in BPaths : BAgain(p)

SpecBatch == InitBatch /\ [][NextBatch]_vars

(***************************************************************************)
(* Vocabulary of the properties.                                           *)
(***************************************************************************)
\* CHECKSUMS.json is the manifest the generator wrote for the default root,
\* not rewritten since
GeneratedForDataRoot ==
    /\ g.pc = "done"
    /\ g.dataDir = DataRoot
    /\ manifestFile # NoManifest
    /\ "generated" \in DOMAIN manifestFile

Finished(i) == v[i].pc = "exited"

\* the path a manifest key names below the verifier's data_dir
Listed(key) == JoinPath(DataRoot, key)

\* the tree differs from the tree at generation at path p and nowhere else
OnlyChanged(p) ==
    /\ p \in Universe
    /\ fs[p] # genFs[p]
    /\ \A q \in Universe \ {p} : fs[q] = genFs[q]

\* the entries of a manifest on disk, whichever key holds them
EntriesOf(m) ==
    IF "checksums" \in DOMAIN m THEN m.checksums
    ELSE IF "files" \in DOMAIN m THEN m.files
    ELSE <<>>

\* the digest string an entry records, whichever shape its value has
DigestOf(info) == IF info.t = "str" THEN info ELSE info.sha256

(***************************************************************************)
(* C1  Round trip: when the generator has written a manifest for a tree    *)
(* and a verifier is run against the same root with the tree unchanged,    *)
(* the run ends with its report, no failure, every manifest entry counted  *)
(* as verified, and exit status 0.                                         *)
(***************************************************************************)
C1_RoundTrip ==
    \A i \in Impl :
        (Finished(i) /\ GeneratedForDataRoot /\ fs = genFs) =>
            /\ v[i].outcome = "report"
            /\ v[i].failed = <<>>
            /\ v[i].verified = Len(manifestFile.checksums)
            /\ v[i].exit = 0

C1_Witness ==
    /\ Finished("repo")
    /\ GeneratedForDataRoot
    /\ fs = genFs
    /\ Len(manifestFile.checksums) >= 3
    /\ v["repo"].verified >= 3

(***************************************************************************)
(* C2  Tamper detection: when exactly one listed file has had its content  *)
(* changed since generation, the run reports exactly one failure, that     *)
(* file with reason "mismatch", and counts every other entry as verified.  *)
(***************************************************************************)
C2_Tamper ==
    \A i \in Impl : \A k \in 1 .. Len(EntriesOf(manifestFile)) :
        LET key == manifestFile.checksums[k].path
            p   == Listed(key)
        IN  (/\ Finished(i)
             /\ GeneratedForDataRoot
             /\ OnlyChanged(p)
             /\ IsFile(genFs, p) /\ IsFile(fs, p)
             /\ Sha256(fs[p].data) # Sha256(genFs[p].data)) =>
                /\ v[i].outcome = "report"
                /\ v[i].failed = << <<key, "mismatch">> >>
                /\ v[i].verified = Len(manifestFile.checksums) - 1

C2_Witness ==
    /\ Finished("repo")
    /\ GeneratedForDataRoot
    /\ Len(manifestFile.checksums) >= 2
    /\ \E k \in 1 .. Len(manifestFile.checksums) :
          LET p == Listed(manifestFile.checksums[k].path)
          IN  OnlyChanged(p) /\ IsFile(genFs, p) /\ IsFile(fs, p)
    /\ Len(v["repo"].failed) = 1
    /\ v["repo"].verified >= 1

(***************************************************************************)
(* C3  Deletion detection: when exactly one listed file has been removed   *)
(* since generation, the run never hashes that path, and it ends with      *)
(* exactly one failure, that path with reason "missing", every other       *)
(* entry counted as verified.                                              *)
(***************************************************************************)
C3_Deletion ==
    \A i \in Impl : \A k \in 1 .. Len(EntriesOf(manifestFile)) :
        LET key == manifestFile.checksums[k].path
            p   == Listed(key)
        IN  (/\ GeneratedForDataRoot
             /\ OnlyChanged(p)
             /\ IsFile(genFs, p) /\ ~Exists(fs, p)) =>
                /\ p \notin v[i].hashed
                /\ Finished(i) =>
                      /\ v[i].outcome = "report"
                      /\ v[i].failed = << <<key, "missing">> >>
                      /\ v[i].verified = Len(manifestFile.checksums) - 1

C3_Witness ==
    /\ Finished("repo")
    /\ GeneratedForDataRoot
    /\ Len(manifestFile.checksums) >= 2
    /\ \E k \in 1 .. Len(manifestFile.checksums) :
          LET p == Listed(manifestFile.checksums[k].path)
          IN  OnlyChanged(p) /\ IsFile(genFs, p) /\ ~Exists(fs, p)
    /\ v["repo"].verified >= 1

(***************************************************************************)
(* C4  The verifier is total over the manifest: whatever the manifest      *)
(* lists and whatever is at each listed path, a run that got past the      *)
(* manifest checks ends with its report, every entry processed once:       *)
(* verified + |failed| = total = the number of manifest entries.  While    *)
(* the loop runs, the entries processed so far are exactly those counted.  *)
(* Stated for the repository's verify_checksums.py.                        *)
(***************************************************************************)
C4_Total ==
    LET run == v["repo"] IN
    /\ run.pc = "loop" =>
          run.verified + Len(run.failed) + Len(run.todo) = run.total
    /\ (Finished("repo") /\ run.outcome \notin {"no_manifest", "format_error"}) =>
          /\ run.outcome = "report"
          /\ run.todo = <<>>
          /\ run.total = Len(EntriesOf(manifestFile))
          /\ run.verified + Len(run.failed) = run.total

(***************************************************************************)
(* C5  Exit status, as claimed: 1 if and only if the manifest file is      *)
(* missing or the failed list is non-empty after all entries were          *)
(* processed; 0 exactly when the manifest exists and every listed file     *)
(* was verified.                                                           *)
(***************************************************************************)
C5_ExitStatus_Original ==
    LET run == v["repo"] IN
    Finished("repo") =>
        /\ run.exit = 1 <=>
              \/ manifestFile = NoManifest
              \/ run.outcome = "report" /\ run.failed # <<>>
        /\ run.exit = 0 <=>
              /\ manifestFile # NoManifest
              /\ run.outcome = "report"
              /\ run.verified = run.total

\* the manifest on disk has one of the two keys the verifier recognises
HasKnownKey(m) == "checksums" \in DOMAIN m \/ "files" \in DOMAIN m

\* a listed path that exists but cannot be opened for hashing (a directory)
UnreadableListed(m) ==
    \E k \in 1 .. Len(EntriesOf(m)) :
        LET p == Listed(EntriesOf(m)[k].path) IN Exists(fs, p) /\ ~CanHash(fs, p)

(***************************************************************************)
(* C5 (amended)  Exit status of the repository's verifier: it is 0 or 1;   *)
(* it is 1 if and only if the manifest file is missing, or the manifest    *)
(* has neither a `checksums` nor a `files` key, or the run is ended by an  *)
(* error raised while hashing a listed path, or the failed list is         *)
(* non-empty after all entries were processed; it is 0 exactly when the    *)
(* manifest exists with a recognised key and every listed file was         *)
(* verified.                                                               *)
(***************************************************************************)
C5_ExitStatus ==
    LET run == v["repo"] IN
    Finished("repo") =>
        /\ run.exit \in {0, 1}
        /\ run.exit = 1 <=>
              \/ manifestFile = NoManifest
              \/ manifestFile # NoManifest /\ ~HasKnownKey(manifestFile)
              \/ manifestFile # NoManifest /\ UnreadableListed(manifestFile)
              \/ run.outcome = "report" /\ run.failed # <<>>
        /\ run.exit = 0 <=>
              /\ manifestFile # NoManifest
              /\ HasKnownKey(manifestFile)
              /\ run.outcome = "report"
              /\ run.failed = <<>>
              /\ run.verified = Len(EntriesOf(manifestFile))

C5_Witness ==
    /\ Finished("repo")
    /\ manifestFile # NoManifest
    /\ ~HasKnownKey(manifestFile)
    /\ v["repo"].exit = 1
    /\ v["repo"].failed = <<>>

FailedSet(run) == {run.failed[j] : j \in 1 .. Len(run.failed)}

(***************************************************************************)
(* C6  Both keys, both value shapes: whether the entries are under         *)
(* `checksums` or under `files`, and whether a value is a bare digest      *)
(* string or an object with a sha256 field, a run of the repository's      *)
(* verifier that reaches its report has counted every listed file whose    *)
(* content still has the recorded digest as verified, and has reported     *)
(* every listed file whose content has another digest as "mismatch".       *)
(***************************************************************************)
C6_BothKeysBothShapes ==
    LET run == v["repo"]
        es  == EntriesOf(manifestFile)
        same(k) == JStr(Sha256(fs[Listed(es[k].path)].data)) = DigestOf(es[k].info)
        files == {k \in 1 .. Len(es) : IsFile(fs, Listed(es[k].path))}
    IN  (/\ Finished("repo")
         /\ manifestFile # NoManifest
         /\ HasKnownKey(manifestFile)
         /\ run.outcome = "report") =>
            /\ \A k \in files :
                  IF same(k)
                  THEN \A r \in FailedSet(run) : r[1] # es[k].path
                  ELSE <<es[k].path, "mismatch">> \in FailedSet(run)
            /\ run.verified = Cardinality({k \in files : same(k)})

(***************************************************************************)
(* C7  Format error: a manifest with neither a `checksums` nor a `files`   *)
(* key ends the repository's verifier with the format error and status 1   *)
(* before any entry is resolved or hashed; a manifest with at least one    *)
(* of the two keys never ends that way.                                    *)
(***************************************************************************)
C7_FormatError ==
    LET run == v["repo"] IN
    (run.pc # "idle" /\ manifestFile # NoManifest) =>
        IF HasKnownKey(manifestFile)
        THEN run.outcome # "format_error"
        ELSE /\ run.pc = "exited"
             /\ run.outcome = "format_error"
             /\ run.exit = 1
             /\ run.hashed = {}
             /\ run.failed = <<>>
             /\ run.verified = 0

C7_Witness ==
    /\ Finished("repo")
    /\ manifestFile # NoManifest
    /\ ~HasKnownKey(manifestFile)
    /\ v["repo"].outcome = "format_error"
    /\ \E p \in Universe : IsFile(fs, p)

(***************************************************************************)
(* C8  The verifier the generator writes out is the same algorithm as the  *)
(* repository's: on every manifest the repository's verifier accepts       *)
(* (either key) and every tree, the two end with the same verified count,  *)
(* the same failed list and the same exit status.                          *)
(***************************************************************************)
C8_SameAlgorithm ==
    (/\ Finished("repo") /\ Finished("emitted")
     /\ manifestFile # NoManifest
     /\ HasKnownKey(manifestFile)) =>
        /\ v["repo"].verified = v["emitted"].verified
        /\ v["repo"].failed = v["emitted"].failed
        /\ v["repo"].exit = v["emitted"].exit

(***************************************************************************)
(* C9  The generator requires its root to be an existing directory: for a  *)
(* root that is absent or is not a directory the CLI ends with status 1    *)
(* and writes neither CHECKSUMS.json nor the verifier; it completes only   *)
(* for an existing directory.                                              *)
(***************************************************************************)
C9_RootMustBeDirectory ==
    g.pc \in {"done", "failed"} =>
        /\ ~IsDir(genFs, g.dataDir) =>
              /\ g.pc = "failed"
              /\ g.exit = 1
              /\ manifestFile = NoManifest
              /\ script = "repo"
        /\ g.pc = "done" => IsDir(genFs, g.dataDir)

\* the extensions of section 4.1
TrackedExt == {".json", ".csv", ".png", ".svg"}

\* the files generate_checksums is to include, in the tree it scanned
Included ==
    {p \in Universe :
        /\ IsPrefix(g.dataDir, p)
        /\ IsFile(genFs, p)
        /\ p[Len(p)][2] \in TrackedExt
        /\ ~Excluded(p)}

(***************************************************************************)
(* C10  The manifest generate_checksums returns has exactly one entry per  *)
(* included file and no other entry: a file is included iff it is a        *)
(* regular file at any depth below root with extension .json, .csv, .png   *)
(* or .svg that is not excluded; the entry's key names the file relative   *)
(* to root and its sha256 is the digest of the file's content.             *)
(***************************************************************************)
C10_ExactlyIncluded ==
    g.pc = "done" =>
        LET m == ReturnedManifest(g) IN
        /\ Len(m.checksums) = Cardinality(Included)
        /\ {g.dataDir \o ParsePath(key) : key \in Keys(m.checksums)} = Included
        /\ \A k \in 1 .. Len(m.checksums) :
              LET p == g.dataDir \o ParsePath(m.checksums[k].path)
              IN  /\ p \in Universe
                  /\ m.checksums[k].info.sha256 = JStr(Sha256(genFs[p].data))

C10_Witness ==
    /\ g.pc = "done"
    /\ g.dataDir = DataRoot
    /\ P_d \in Included /\ P_sub_a \in Included /\ P_b \in Included
    /\ IsDir(genFs, P_a)
    /\ IsFile(genFs, P_c)
    /\ IsFile(genFs, P_notes)
    /\ Len(g.checksums) = 3

(***************************************************************************)
(* C11  Exclusion is a denylist on whole path components: a regular file   *)
(* below root with a tracked extension is left out of the manifest if and  *)
(* only if at least one component of its path is equal to one of htmlcov,  *)
(* quality, __pycache__, .pytest_cache; a component that only contains     *)
(* such a name (the file htmlcov.csv in results/) does not exclude it.     *)
(***************************************************************************)
C11_WholeComponentDenylist ==
    g.pc = "done" =>
        \A p \in Universe :
            (/\ IsPrefix(g.dataDir, p)
             /\ IsFile(genFs, p)
             /\ p[Len(p)][2] \in TrackedExt) =>
                LET key == PathStr(RelativeTo(p, g.dataDir))
                    hasExcludedComponent ==
                        \E i \in 1 .. Len(p) :
                            NameText(p[i]) \in {"htmlcov", "quality", "__pycache__",
                                                ".pytest_cache"}
                IN  key \notin Keys(g.checksums) <=> hasExcludedComponent

C11_Witness ==
    /\ g.pc = "done"
    /\ g.dataDir = DataRoot
    /\ IsFile(genFs, P_b)
    /\ NameText(P_b[Len(P_b)]) = "htmlcov.csv"
    /\ PathStr(RelativeTo(P_b, DataRoot)) \in Keys(g.checksums)
    /\ IsFile(genFs, P_c)
    /\ PathStr(RelativeTo(P_c, DataRoot)) \notin Keys(g.checksums)

(***************************************************************************)
(* C12  In every manifest generate_checksums returns, total_files equals   *)
(* the number of entries of the checksums mapping: no file is counted      *)
(* twice and no counted file is missing from the mapping.                  *)
(***************************************************************************)
C12_TotalIsEntryCount ==
    g.pc = "done" =>
        LET m == ReturnedManifest(g) IN
        /\ m.total_files = Len(m.checksums)
        /\ m.total_files = Cardinality(Keys(m.checksums))

C12_Witness ==
    /\ g.pc = "done"
    /\ ReturnedManifest(g).total_files = 3
    /\ Len(ReturnedManifest(g).checksums) = 3

(***************************************************************************)
(* Vocabulary of the validator claims.                                     *)
(***************************************************************************)
\* validate returned a ValidationResult
Returned == vres.t = "result"

\* number of messages of a list that satisfy Test
Count(msgs, Test(_)) == Cardinality({k \in 1 .. Len(msgs) : Test(msgs[k])})

\* the file is there, is not zero-length and holds the text of a JSON object
ParsedObject == vfile.kind = "json" /\ vfile.disk = "bytes" /\ HoldsObject

(***************************************************************************)
(* C13  Every ValidationResult returned by JSONValidator.validate or       *)
(* CSVValidator.validate, on every return path, has valid = true if and    *)
(* only if its errors list is empty; warnings never change valid.          *)
(***************************************************************************)
C13_ValidIffNoErrors ==
    Returned => (vres.valid <=> vres.errors = <<>>)

C13_Witness ==
    /\ Returned
    /\ vres.valid
    /\ vres.errors = <<>>
    /\ Len(vres.warnings) >= 2

(***************************************************************************)
(* C14  JSON fast-fail: for every file that is missing, or zero-length, or *)
(* not parseable as JSON, or parseable with a root that is not an object,  *)
(* JSONValidator.validate returns a result with valid = false, exactly one *)
(* error, no warnings and no checksum; a missing file is reported as not   *)
(* found and a zero-length file as empty, whatever else holds of them.     *)
(***************************************************************************)
C14_JsonFastFail ==
    (/\ vfile.kind = "json"
     /\ vres # NotCalled
     /\ \/ vfile.disk \in {"missing", "empty"}
        \/ vfile.disk = "bytes" /\ vfile.text \in {"undecodable", "malformed"}
        \/ vfile.disk = "bytes" /\ vfile.text = "json" /\ ~IsPyDict(vfile.data)) =>
        /\ Returned
        /\ ~vres.valid
        /\ Len(vres.errors) = 1
        /\ vres.warnings = <<>>
        /\ vres.checksum = NoChecksum
        /\ vfile.disk = "missing" => vres.errors = <<<<"File not found">>>>
        /\ vfile.disk = "empty" => vres.errors = <<<<"File is empty">>>>

\* a JSON number: an integer or a real, not a boolean
IsJsonNumber(x) == x.t \in {"int", "float"}

(***************************************************************************)
(* C15  For each object element of a results list and each statistic field *)
(* in mean_us, median_us, stddev_us, min_us, max_us: a field that is       *)
(* present with a value that is not a number (string, boolean, null, list, *)
(* object) or is a negative number has exactly one error and the file is   *)
(* invalid; a field present with a non-negative number has no error; the   *)
(* fields missing from the element are reported together in one warning    *)
(* for that element and have no error.                                     *)
(***************************************************************************)
C15_StatisticFields ==
    (ParsedObject /\ HoldsResults /\ Returned) =>
        \A i \in 1 .. Len(vfile.data.items["results"].items) :
            LET result == vfile.data.items["results"].items[i]
                idx == i - 1
                errorsFor(f) ==
                    Count(vres.errors,
                          LAMBDA m : m[1] = "Invalid stat" /\ m[2] = f /\ m[3] = idx)
                missing == {f \in Range(StatFields) : ~HasKey(result, f)}
                missingWarnings ==
                    Count(vres.warnings,
                          LAMBDA m : m[1] = "Result missing stats" /\ m[2] = idx)
            IN  IsPyDict(result) =>
                    /\ \A f \in Range(StatFields) \ missing :
                          IF IsJsonNumber(result.items[f]) /\ result.items[f].n >= 0
                          THEN errorsFor(f) = 0
                          ELSE errorsFor(f) = 1 /\ ~vres.valid
                    /\ \A f \in missing : errorsFor(f) = 0
                    /\ missingWarnings = (IF missing = {} THEN 0 ELSE 1)
                    /\ \A k \in 1 .. Len(vres.warnings) :
                          (vres.warnings[k][1] = "Result missing stats"
                              /\ vres.warnings[k][2] = idx) =>
                             Range(vres.warnings[k][3]) = missing

(***************************************************************************)
(* C16  Whenever a JSON file exists, is non-empty, parses and has an       *)
(* object root, the result of JSONValidator.validate carries the SHA-256   *)
(* of the file's bytes, whether the result is valid or schema errors made  *)
(* it invalid; the checksum is absent exactly on the fast-fail paths.      *)
(***************************************************************************)
C16_ChecksumUnlessFastFail ==
    (vfile.kind = "json" /\ Returned) =>
        IF ParsedObject
        THEN vres.checksum = Sha256(vfile)
        ELSE vres.checksum = NoChecksum /\ ~vres.valid /\ Len(vres.errors) = 1

C16_Witness ==
    /\ vfile.kind = "json"
    /\ Returned
    /\ ParsedObject
    /\ ~vres.valid
    /\ Len(vres.errors) >= 2
    /\ vres.checksum = Sha256(vfile)

\* the number enumerate(reader, start=2) gives line j of the rows, DictReader
\* having passed over the lines without cells before it
RowNumber(rows, j) == 1 + Cardinality({k \in 1 .. j : rows[k] # <<>>})

\* a message about a cell of a row
IsRowError(m) == m[1] \in {"Empty value", "Invalid numeric value", "Negative value"}

\* the errors a result reports for row number n: kind and column, in order
RowErrors(res, n) ==
    LET s == SelectSeq(res.errors, LAMBDA m : IsRowError(m) /\ m[2] = n)
    IN  [k \in 1 .. Len(s) |-> <<s[k][1], s[k][3]>>]

\* the file with every line before line j replaced by a well-formed row
WithCleanRowsBefore(f, j) ==
    [f EXCEPT !.rows = [k \in 1 .. Len(f.rows) |->
                            IF k < j THEN DefaultRow(f.header) ELSE f.rows[k]]]

(***************************************************************************)
(* C17  CSV rows are validated independently: for every CSV file with a    *)
(* header and every pair of rows i < j, the errors reported for row j are  *)
(* the same whatever row i contains; a defective row i (empty critical     *)
(* cell, non-numeric or negative value, fewer or more cells than the       *)
(* header) never prevents row j from being checked and reported.           *)
(***************************************************************************)
C17_RowsIndependent ==
    (HoldsRows /\ Returned) =>
        \A j \in 1 .. Len(vfile.rows) :
            vfile.rows[j] # <<>> =>
                LET clean == WithCleanRowsBefore(vfile, j)
                IN  RowErrors(vres, RowNumber(vfile.rows, j))
                        = RowErrors(CsvValidate(clean), RowNumber(clean.rows, j))

(***************************************************************************)
(* C18  For every data row r (numbered from 2) and every column c of       *)
(* iterations, mean, median, min, max, stddev that is in the header with a *)
(* non-blank cell: a cell that does not parse as a number has one error    *)
(* naming r and c as an invalid numeric value, a cell that parses to a     *)
(* negative number has one error naming r and c as negative, a cell that   *)
(* parses to a non-negative number has no error; validate returns a        *)
(* result in every case.                                                   *)
(***************************************************************************)
C18_NumericCells ==
    (HoldsRows /\ vres # NotCalled) =>
        /\ Returned
        /\ \A j \in 1 .. Len(vfile.rows), c \in Range(NumericCols) :
              LET row == DictRow(vfile.header, vfile.rows[j])
                  r == RowNumber(vfile.rows, j)
                  invalid == Count(vres.errors,
                                   LAMBDA m : m[1] = "Invalid numeric value"
                                              /\ m[2] = r /\ m[3] = c)
                  negative == Count(vres.errors,
                                    LAMBDA m : m[1] = "Negative value"
                                               /\ m[2] = r /\ m[3] = c)
              IN  (/\ vfile.rows[j] # <<>>
                   /\ InRow(row, c)
                   /\ RowGet(row, c) # PyNone
                   /\ Strip(RowGet(row, c).s) # "") =>
                      IF ~ParseFloat(RowGet(row, c).s).ok
                      THEN invalid = 1 /\ negative = 0
                      ELSE IF ParseFloat(RowGet(row, c).s).n < 0
                      THEN invalid = 0 /\ negative = 1
                      ELSE invalid = 0 /\ negative = 0

(***************************************************************************)
(* C19  For every data row and each of the columns algorithm and operation *)
(* in the header, an empty or whitespace-only cell has exactly one error   *)
(* naming the row number (first data row = 2) and the column, a non-blank  *)
(* cell has none; so the header algorithm,operation,iterations,mean,median *)
(* with one fully populated non-negative row is valid with no errors and   *)
(* no warnings, and the same row with an empty operation cell has exactly  *)
(* one error, for row 2, column operation.                                 *)
(***************************************************************************)
C19_CriticalCells ==
    (HoldsRows /\ vres # NotCalled) =>
        /\ Returned
        /\ \A j \in 1 .. Len(vfile.rows), c \in Range(CriticalCols) :
              LET row == DictRow(vfile.header, vfile.rows[j])
                  r == RowNumber(vfile.rows, j)
                  empty == Count(vres.errors,
                                 LAMBDA m : m[1] = "Empty value" /\ m[2] = r /\ m[3] = c)
              IN  (/\ vfile.rows[j] # <<>>
                   /\ InRow(row, c)
                   /\ RowGet(row, c) # PyNone) =>
                      empty = (IF Strip(RowGet(row, c).s) = "" THEN 1 ELSE 0)
        /\ (vfile.header = ExpectedColumns
               /\ vfile.rows = <<DefaultRow(ExpectedColumns)>>) =>
              vres.valid /\ vres.errors = <<>> /\ vres.warnings = <<>>
        /\ (vfile.header = ExpectedColumns
               /\ vfile.rows = <<[DefaultRow(ExpectedColumns) EXCEPT ![2] = ""]>>) =>
              vres.errors = <<<<"Empty value", 2, "operation">>>>

\* the lines of the rows that have no cell for a checked column of the header
ShortRows(f) ==
    {j \in 1 .. Len(f.rows) :
        /\ f.rows[j] # <<>>
        /\ \E c \in Range(CriticalCols) \cup Range(NumericCols) :
              /\ InRow(DictRow(f.header, f.rows[j]), c)
              /\ RowGet(DictRow(f.header, f.rows[j]), c) = PyNone}

\* an exception is raised between open() and the end of the row scan
CsvRaises(f) ==
    \/ f.disk = "directory"
    \/ f.disk = "bytes" /\ f.text = "undecodable"
    \/ f.disk = "bytes" /\ f.text = "csv" /\ ShortRows(f) # {}

IsParseError(m) == m[1] = "Error parsing CSV"

\* no error names a row after the first row that raised
NothingAfterFirstShortRow(f, res) ==
    ShortRows(f) # {} =>
        LET first == CHOOSE j \in ShortRows(f) : \A k \in ShortRows(f) : j <= k
        IN  \A k \in 1 .. Len(res.errors) :
                IsRowError(res.errors[k]) => res.errors[k][2] <= RowNumber(f.rows, first)

(***************************************************************************)
(* C20 (as stated)  When an exception is raised while                      *)
(* CSVValidator.validate scans the header or rows, it is caught, the       *)
(* result is invalid with a single error (the parse-error message), the    *)
(* remaining rows are not checked and nothing propagates; when no          *)
(* fast-fail occurred (file exists, is non-empty and has a header) the     *)
(* result carries the file's SHA-256 checksum.                             *)
(***************************************************************************)
C20_ExceptionPath_Original ==
    (vfile.kind = "csv" /\ vres # NotCalled) =>
        /\ Returned
        /\ CsvRaises(vfile) =>
              /\ ~vres.valid
              /\ Len(vres.errors) = 1
              /\ IsParseError(vres.errors[1])
              /\ NothingAfterFirstShortRow(vfile, vres)
        /\ (vfile.disk = "bytes" /\ vfile.text = "csv") => vres.checksum = Sha256(vfile)

(***************************************************************************)
(* C20 (amended)  When an exception is raised while                        *)
(* CSVValidator.validate opens the file or scans the header or rows, it is *)
(* caught and nothing propagates; the result is invalid, its errors are    *)
(* the errors found before the exception followed by exactly one           *)
(* parse-error message (alone when the exception came before any row was   *)
(* read), the remaining rows are not checked, and the result carries no    *)
(* checksum.  A result carries the file's SHA-256 checksum exactly when    *)
(* the file exists, is non-empty and was scanned to its end without an     *)
(* exception.                                                              *)
(***************************************************************************)
C20_ExceptionPath ==
    (vfile.kind = "csv" /\ vres # NotCalled) =>
        /\ Returned
        /\ IF CsvRaises(vfile)
           THEN /\ ~vres.valid
                /\ Count(vres.errors, IsParseError) = 1
                /\ IsParseError(vres.errors[Len(vres.errors)])
                /\ \A k \in 1 .. Len(vres.errors) - 1 : IsRowError(vres.errors[k])
                /\ ShortRows(vfile) = {} => Len(vres.errors) = 1
                /\ NothingAfterFirstShortRow(vfile, vres)
                /\ vres.checksum = NoChecksum
           ELSE /\ Count(vres.errors, IsParseError) = 0
                /\ IF vfile.disk = "bytes"
                   THEN vres.checksum = Sha256(vfile)
                   ELSE vres.checksum = NoChecksum

C20_Witness ==
    /\ vfile.kind = "csv"
    /\ Returned
    /\ ShortRows(vfile) # {}
    /\ Len(vres.errors) >= 2
    /\ IsParseError(vres.errors[Len(vres.errors)])
    /\ IsRowError(vres.errors[1])
    /\ vres.checksum = NoChecksum

\* a message of the per-element checks of the results format
IsResultMessage(m) ==
    m[1] \in {"Result must be an object", "Result missing 'operation' field",
              "Result missing stats", "Invalid stat", "Low sample count"}

\* a message of the checks of the operations format
IsOperationMessage(m) ==
    m[1] \in {"Operation must be an object", "Operation missing stats"}

(***************************************************************************)
(* C25  JSONValidator.validate checks at most one data shape per file:     *)
(* the per-element checks run when results is present and is a list; the   *)
(* operations checks (a value that is not an object is an error, missing   *)
(* any of min, max, mean, median, stddev is one warning naming them) run   *)
(* only when results is absent or not a list and operations is a mapping;  *)
(* when neither holds only the required-field check contributes errors.    *)
(***************************************************************************)
C25_OneShapePerFile ==
    (ParsedObject /\ Returned) =>
        LET data == vfile.data
            resultsShape == HasKey(data, "results") /\ data.items["results"].t = "list"
            legacyShape ==
                /\ ~resultsShape
                /\ HasKey(data, "operations")
                /\ data.items["operations"].t = "dict"
            required ==
                IF HasKey(data, "algorithm") THEN <<>>
                ELSE <<<<"Missing required field", "algorithm">>>>
        IN  /\ ~resultsShape =>
                  Count(vres.errors, IsResultMessage) + Count(vres.warnings, IsResultMessage) = 0
            /\ ~legacyShape =>
                  Count(vres.errors, IsOperationMessage)
                      + Count(vres.warnings, IsOperationMessage) = 0
            /\ resultsShape =>
                  \A i \in 1 .. Len(data.items["results"].items) :
                      data.items["results"].items[i].t # "dict" =>
                          Count(vres.errors,
                                LAMBDA m : m = <<"Result must be an object", i - 1>>) = 1
            /\ legacyShape =>
                  \A k \in 1 .. Len(data.items["operations"].pairs) :
                      LET name == data.items["operations"].pairs[k][1]
                          value == data.items["operations"].pairs[k][2]
                          objectErrors ==
                              Count(vres.errors,
                                    LAMBDA m : m = <<"Operation must be an object", name>>)
                          statWarnings ==
                              {j \in 1 .. Len(vres.warnings) :
                                  /\ vres.warnings[j][1] = "Operation missing stats"
                                  /\ vres.warnings[j][2] = name}
                      IN  IF value.t # "dict"
                          THEN objectErrors = 1 /\ statWarnings = {}
                          ELSE LET missing == {f \in {"min", "max", "mean", "median", "stddev"} :
                                                  f \notin DOMAIN value.items}
                               IN  /\ objectErrors = 0
                                   /\ Cardinality(statWarnings) = (IF missing = {} THEN 0 ELSE 1)
                                   /\ \A j \in statWarnings :
                                         Range(vres.warnings[j][3]) = missing
            /\ (~resultsShape /\ ~legacyShape) =>
                  vres.errors = required /\ vres.warnings = <<>>

C25_Witness ==
    /\ ParsedObject
    /\ Returned
    /\ HasKey(vfile.data, "results")
    /\ ~IsPyList(vfile.data.items["results"])
    /\ HasKey(vfile.data, "operations")
    /\ Count(vres.errors, IsOperationMessage) = 1
    /\ Count(vres.warnings, IsOperationMessage) = 1

\* the expected columns the header lacks
MissingExpected(f) == Range(ExpectedColumns) \ Range(f.header)

\* the file holding line j of the rows as its only row
WithOnlyRow(f, j) == [f EXCEPT !.rows = <<f.rows[j]>>]

\* every row is reported as it is when it is the only row of the file
RowsStillChecked ==
    \A j \in 1 .. Len(vfile.rows) :
        vfile.rows[j] # <<>> =>
            RowErrors(vres, RowNumber(vfile.rows, j))
                = RowErrors(CsvValidate(WithOnlyRow(vfile, j)), 2)

\* the advisories of a CSV result: the warning of the missing columns lists
\* them all, the warning of the file without rows comes with no error
Advisories ==
    /\ Returned
    /\ Count(vres.warnings, LAMBDA m : m[1] = "Missing expected columns")
           = (IF MissingExpected(vfile) = {} THEN 0 ELSE 1)
    /\ \A k \in 1 .. Len(vres.warnings) :
          vres.warnings[k][1] = "Missing expected columns" =>
              Range(vres.warnings[k][2]) = MissingExpected(vfile)
    /\ (\A j \in 1 .. Len(vfile.rows) : vfile.rows[j] = <<>>) =>
          /\ Count(vres.warnings, LAMBDA m : m = <<"CSV file has no data rows">>) = 1
          /\ vres.errors = <<>>
    /\ (Count(vres.errors, IsRowError) + Count(vres.errors, IsParseError) = 0) =>
          vres.valid

(***************************************************************************)
(* C26  CSV advisories never invalidate a file: a header lacking any of    *)
(* the expected columns algorithm, operation, iterations, mean, median     *)
(* yields exactly one warning listing all missing names and the rows are   *)
(* still checked on the columns that exist; a file with a header and zero  *)
(* data rows yields a warning and no error; in both cases the result is    *)
(* valid when no row produced an error.                                    *)
(***************************************************************************)
C26_AdvisoriesNeverInvalidate ==
    (HoldsRows /\ vres # NotCalled) =>
        /\ Advisories
        /\ MissingExpected(vfile) # {} => RowsStillChecked

(***************************************************************************)
(* A whole verifier run as a function of the manifest and the tree.        *)
(***************************************************************************)
RECURSIVE RunToEnd(_, _, _)
\* the loop from a position of the run to the exit
RunToEnd(i, run, f) ==
    IF run.pc # "loop" THEN run
    ELSE IF run.todo = <<>>
    THEN [run EXCEPT !.pc = "exited", !.outcome = "report", !.exit = ExitStatus(run.failed)]
    ELSE RunToEnd(i, VerifyEntry(i, run, f, Head(run.todo)), f)

\* the run of verifier i over a manifest whose entries it can load
Replay(i, m, f) ==
    LET ld == LoadChecksums(i, m)
    IN  RunToEnd(i, [VIdle EXCEPT !.pc = "loop", !.todo = ld.items, !.total = Len(ld.items)], f)

\* what a finished run tells: the verified count, the failed list, the status
Outcome(run) == <<run.verified, run.failed, run.exit>>

\* verifier i has run over the entries of the manifest on disk
RanOverEntries(i) ==
    /\ Finished(i)
    /\ manifestFile # NoManifest
    /\ LoadChecksums(i, manifestFile).how = "ok"

\* an entry value without its size and modified fields
WithoutStamp(info) ==
    IF info.t = "obj" /\ "size" \in DOMAIN info THEN JObj(info.sha256) ELSE info

WithoutStamps(items) ==
    [k \in 1 .. Len(items) |-> [path |-> items[k].path, info |-> WithoutStamp(items[k].info)]]

\* the manifest with nothing but path and sha256 in its entries
DigestsOnly(m) ==
    IF "checksums" \in DOMAIN m THEN [m EXCEPT !.checksums = WithoutStamps(@)] ELSE m

\* the tree with every modification time forgotten
ContentOnly(f) == [p \in DOMAIN f |-> [f[p] EXCEPT !.mtime = 0]]

(***************************************************************************)
(* C27  The verification outcome depends only on each listed file's        *)
(* existence and byte content: with a file's modification time changed, or *)
(* the size and modified values of the manifest entries changed, while     *)
(* content and recorded sha256 stay the same, the verified count, the      *)
(* failed list and the exit status are what they are without the change.   *)
(***************************************************************************)
C27_ContentOnly ==
    \A i \in Impl :
        RanOverEntries(i) =>
            Outcome(v[i]) = Outcome(Replay(i, DigestsOnly(manifestFile), ContentOnly(fs)))

C27_Witness ==
    /\ RanOverEntries("repo")
    /\ GeneratedForDataRoot
    /\ v["repo"].outcome = "report"
    /\ v["repo"].failed = <<>>
    /\ v["repo"].verified >= 2
    /\ \E k \in 1 .. Len(manifestFile.checksums) :
          fs[Listed(manifestFile.checksums[k].path)].mtime = 1
    /\ \E k \in 1 .. Len(manifestFile.checksums) :
          manifestFile.checksums[k].info.modified = 0 - 1

\* since generation, paths were added to the tree and nothing else changed
OnlyAdditions ==
    /\ \A p \in Universe : genFs[p].kind # "absent" => fs[p] = genFs[p]
    /\ fs # genFs

(***************************************************************************)
(* C28  Verification checks only the paths listed in the manifest: files   *)
(* added to the data directory after generation, files with tracked        *)
(* extensions included, change neither the verified count, nor the failed  *)
(* list, nor the exit status.                                              *)
(***************************************************************************)
C28_OnlyListedPaths ==
    \A i \in Impl :
        (RanOverEntries(i) /\ g.pc = "done" /\ g.dataDir = DataRoot /\ OnlyAdditions) =>
            Outcome(v[i]) = Outcome(Replay(i, manifestFile, genFs))

C28_Witness ==
    /\ RanOverEntries("repo")
    /\ GeneratedForDataRoot
    /\ OnlyAdditions
    /\ \E p \in Universe :
          /\ IsFile(fs, p)
          /\ ~Exists(genFs, p)
          /\ \E k \in 1 .. Len(Patterns) : Matches(p[Len(p)], Patterns[k])
          /\ ~Excluded(p)
    /\ v["repo"].outcome = "report"
    /\ v["repo"].verified >= 2
    /\ v["repo"].exit = 0

\* the tree below root: the tracked regular files, by their path from root,
\* that no component below root excludes
IncludedBelowRoot ==
    {p \in Universe :
        /\ IsPrefix(g.dataDir, p)
        /\ IsFile(genFs, p)
        /\ p[Len(p)][2] \in TrackedExt
        /\ ~Excluded(RelativeTo(p, g.dataDir))}

(***************************************************************************)
(* C29  The set of manifest keys depends only on the tree below root, not  *)
(* on where root is located: the keys are the relative paths of the        *)
(* included files below root and the sha256 values are their digests,      *)
(* whatever the components of root's own path are (a root whose path has a *)
(* component named htmlcov, quality, __pycache__ or .pytest_cache          *)
(* included).                                                              *)
(***************************************************************************)
C29_RootLocationIrrelevant ==
    g.pc = "done" =>
        /\ Keys(g.checksums) = {PathStr(RelativeTo(p, g.dataDir)) : p \in IncludedBelowRoot}
        /\ \A p \in IncludedBelowRoot :
              \E k \in 1 .. Len(g.checksums) :
                  /\ g.checksums[k].path = PathStr(RelativeTo(p, g.dataDir))
                  /\ g.checksums[k].info.sha256 = JStr(Sha256(genFs[p].data))

(***************************************************************************)
(* C30  Each run of the generator CLI builds its manifest from scratch     *)
(* from the current content of the data directory: when the run has        *)
(* completed, every entry of the written CHECKSUMS.json names a file that  *)
(* is present and records the hash of the content the file has at that     *)
(* moment, for any data directory argument (the working directory, in      *)
(* which CHECKSUMS.json is written, included) and after any number of      *)
(* earlier runs.                                                           *)
(***************************************************************************)
C30_FromScratch ==
    (g.pc = "done" /\ fs = genFs /\ "generated" \in DOMAIN manifestFile) =>
        LET disk == Disk(fs, manifestFile)
        IN  \A k \in 1 .. Len(manifestFile.checksums) :
                LET p == g.dataDir \o ParsePath(manifestFile.checksums[k].path)
                IN  /\ IsFile(disk, p)
                    /\ manifestFile.checksums[k].info.sha256 = JStr(Sha256(disk[p].data))

(***************************************************************************)
(* Vocabulary of the claims about batch mode and the validator CLI.        *)
(***************************************************************************)
\* main() took the directory branch
BatchMode == brun.pc # "idle" /\ BIsDir(bdir, brun.path)

\* an exception came out of a validator
ValidationRaised == brun.raised \notin {"none", "OSError"}

\* validate_directory has returned its list
BatchReturned == BatchMode /\ brun.pc \in {"report", "exited"} /\ ~ValidationRaised

\* what is below the directory (at any depth, or directly) with the
\* extension .json or .csv
DataFiles(dir, recursive) ==
    {p \in BPaths :
        /\ bdir[p].kind # "none"
        /\ IsPrefix(dir, p)
        /\ recursive \/ Len(p) = Len(dir) + 1
        /\ p[Len(p)][2] \in {".json", ".csv"}}

\* the file at p validated on its own by the validator of its extension
ValidatedAlone(p) ==
    IF p[Len(p)][2] = ".json" THEN JsonValidate(bdir[p]) ELSE CsvValidate(bdir[p])

\* the file at p cannot be read or parsed
Unreadable(p) ==
    \/ bdir[p].disk = "directory"
    \/ bdir[p].text \in {"malformed", "undecodable"}
    \/ bdir[p].kind = "csv" /\ ShortRows(bdir[p]) # {}

ResultPaths == {brun.results[k].path : k \in 1 .. Len(brun.results)}

(***************************************************************************)
(* C21  A failure on one file never aborts a batch: for every directory    *)
(* content validate_directory returns normally with exactly one result for *)
(* every collected *.json and *.csv entry; a file that cannot be read or   *)
(* parsed (malformed JSON, undecodable bytes, a directory entry named      *)
(* *.json or *.csv, a short CSV row) contributes one invalid result, and   *)
(* the result of every other file is the one it has when validated alone.  *)
(***************************************************************************)
C21_BatchNeverAborts ==
    (BatchMode /\ brun.pc = "exited") =>
        /\ ~ValidationRaised
        /\ ResultPaths = DataFiles(brun.path, brun.recursive)
        /\ Len(brun.results) = Cardinality(DataFiles(brun.path, brun.recursive))
        /\ \A k \in 1 .. Len(brun.results) :
              LET p == brun.results[k].path
              IN  IF Unreadable(p)
                  THEN ~brun.results[k].res.valid
                  ELSE brun.results[k].res = ValidatedAlone(p)

(***************************************************************************)
(* C22  Batch mode collects exactly the files under the directory whose    *)
(* extension is .json or .csv (at any depth when recursive, the direct     *)
(* children when not), validates each with the validator the factory       *)
(* selects for its extension, and returns the results in the sorted order  *)
(* of the paths with no file twice, whatever the order of the traversal.   *)
(***************************************************************************)
C22_SortedExactlyOnce ==
    BatchReturned =>
        /\ ResultPaths = DataFiles(brun.path, brun.recursive)
        /\ \A k \in 1 .. Len(brun.results) - 1 :
              PathLess(brun.results[k].path, brun.results[k + 1].path)
        /\ \A k \in 1 .. Len(brun.results) :
              brun.results[k].res = ValidatedAlone(brun.results[k].path)

C22_Witness ==
    /\ BatchReturned
    /\ brun.recursive
    /\ brun.path = BRoot
    /\ Len(brun.results) >= 3
    /\ brun.files # Sorted(brun.files)
    /\ bdir[B_dot].kind # "none"
    /\ B_c \in ResultPaths

\* the path given to the CLI is a file with a validator, or a directory
PathAccepted ==
    \/ BIsDir(bdir, brun.path)
    \/ BIsFile(bdir, brun.path) /\ CreateValidator(brun.path) # "none"

(***************************************************************************)
(* C23  The validator CLI returns 0 if and only if the path exists, is a   *)
(* supported file or a directory, and every validated file's result is     *)
(* valid (a directory in which no file was validated included); otherwise  *)
(* it returns 1; the quiet and checksums options never change the exit     *)
(* code.                                                                   *)
(***************************************************************************)
C23_ExitCode ==
    brun.pc = "exited" =>
        /\ brun.exit \in {0, 1}
        /\ brun.exit = 0 <=>
              (PathAccepted /\ ~ValidationRaised /\ AllValid(brun.results))

(***************************************************************************)
(* C24  Validation is deterministic and stateless: a second run of         *)
(* validate over a file whose bytes are unchanged returns the valid,       *)
(* errors, warnings and checksum of the first, whatever other files were   *)
(* validated before and whatever the file's modification time is.          *)
(***************************************************************************)
C24_Deterministic ==
    (brun.pc = "exited" /\ brun.again # NotCalled) =>
        \A k \in 1 .. Len(brun.results) :
            brun.results[k].path = brun.again.path =>
                brun.results[k].res = brun.again.res

C24_Witness ==
    /\ brun.pc = "exited"
    /\ brun.again # NotCalled
    /\ bdir[brun.again.path].mtime = 1
    /\ Len(brun.results) >= 3
    /\ brun.results[3].path = brun.again.path
    /\ brun.again.res.t = "result"
    /\ brun.again.res.checksum # NoChecksum

====
